---- MODULE Spec2Model ----
(***************************************************************************)
(* Manga Insight: the task lifecycle controller (AnalysisTaskManager), the *)
(* control skeleton of the full-book hierarchical analysis it runs on a    *)
(* worker thread, the batch analyzer with its result store                 *)
(* (MangaAnalyzer, AnalysisStorage), the data of one worker run and of     *)
(* runs that follow each other, and the construction of the controller     *)
(* singleton.                                                              *)
(***************************************************************************)
EXTENDS Integers, Sequences, FiniteSets, TLC

\* ---------------------------------------------------------------- bounds
MaxTasks == 2
NumBooks == 1
MaxWorkers == 2
TotalPages == 2

pages_per_batch == 1
PagesPerChapter == 2
\* tasks created under TaskSpec and FairSpec
LiveTasks == 1
\* the longest book of the data specifications
MaxPages == 3
\* calls of the analysis client under AnalyzerSpec
MaxCalls == 2
\* the largest pages_per_batch and context_batch_count under RunSpec
MaxBatchSize == 2
MaxContext == 1

\* callbacks registered for a task
MaxCallbacks == 2

\* rebuilds of the vector store of a book
MaxBuilds == 2

\* members of a group handed to generate_segment_summary
MaxMembers == 4

\* tasks of one book that run one after the other
MaxRuns == 2

\* threads that call get_task_manager() while the singleton is constructed
MaxThreads == 3

TaskIds == 1..MaxTasks
Books == 1..NumBooks

\* TaskStatus values
PENDING == "Pending"
RUNNING == "Running"
PAUSED == "Paused"
COMPLETED == "Completed"
FAILED == "Failed"
CANCELLED == "Cancelled"

Terminal == {COMPLETED, FAILED, CANCELLED}

UnitPcs == {"batch", "group", "chapter"}

FinalizationPcs == {"post", "timeline"}

VARIABLES
    tasks,          \* self.tasks: task_id -> AnalysisTask
    book_tasks,     \* self.book_tasks: book_id -> list of task ids
    running_tasks,  \* self.running_tasks: task_id -> worker thread
    pause_events,   \* self._pause_events: task_id -> Event flag (TRUE = set)
    cancel_flags,   \* self._cancel_flags: task_id -> bool
    workers,        \* the worker threads launched so far, in launch order
    clock,          \* datetime.now()
    preset,         \* config.analysis.batch.architecture_preset
    ret,            \* the last controller call and its result
    pause_cancelled,\* history: the tasks cancelled while their status was PAUSED
    batches,        \* AnalysisStorage batches/: <<start, end>> -> BatchResult
    page_store,     \* AnalysisStorage pages/: page number -> page record
    segments,       \* AnalysisStorage segments/: segment id -> SegmentResult
    chapter_store,  \* AnalysisStorage chapters/: chapter id -> chapter analysis
    vlm_calls,      \* the calls of vlm.analyze_batch made so far, in order
    acall,          \* the last call of the analyzer: operation, arguments, and
                    \* what the environment (page files, client) answers to it
    aret,           \* what the last call of the analyzer returned or raised
    all_images,     \* book_info["all_images"]: the chapter id of every page
    custom_layers,  \* config.analysis.batch.custom_layers
    settings,       \* config.analysis.batch: pages_per_batch, context_batch_count
    progress_callbacks, \* self.progress_callbacks: task_id -> list of callbacks
    vector_store,   \* MangaVectorStore of the book: page and event entries
    singleton,      \* AnalysisTaskManager._instance, its _initialized flag, and
                    \* the threads that are calling get_task_manager()
    run             \* the data of the worker run of task 1 (_execute_task)

\* the controller's tables and the control position of its worker threads
ControllerVars == <<tasks, book_tasks, running_tasks, pause_events, cancel_flags,
                    workers, clock, preset, ret, pause_cancelled>>

\* the result store, the analysis client and what one worker run computes
DataVars == <<batches, page_store, segments, chapter_store, vlm_calls, acall, aret, all_images,
              custom_layers, settings, progress_callbacks, vector_store, singleton,
              run>>

vars == <<tasks, book_tasks, running_tasks, pause_events, cancel_flags,
          workers, clock, preset, ret, pause_cancelled, batches, page_store,
          segments, chapter_store, vlm_calls, acall, aret, all_images, custom_layers,
          progress_callbacks, vector_store, singleton,
          settings, run>>

\* ------------------------------------------------------------ configuration
ARCHITECTURE_PRESETS ==
    [simple        |-> << [units_per_group |-> 5, align_to_chapter |-> FALSE],
                          [units_per_group |-> 0, align_to_chapter |-> FALSE] >>,
     standard      |-> << [units_per_group |-> 5, align_to_chapter |-> FALSE],
                          [units_per_group |-> 5, align_to_chapter |-> FALSE],
                          [units_per_group |-> 0, align_to_chapter |-> FALSE] >>,
     chapter_based |-> << [units_per_group |-> 5, align_to_chapter |-> TRUE],
                          [units_per_group |-> 0, align_to_chapter |-> TRUE],
                          [units_per_group |-> 0, align_to_chapter |-> FALSE] >>,
     full          |-> << [units_per_group |-> 5, align_to_chapter |-> FALSE],
                          [units_per_group |-> 5, align_to_chapter |-> FALSE],
                          [units_per_group |-> 0, align_to_chapter |-> TRUE],
                          [units_per_group |-> 0, align_to_chapter |-> FALSE] >> ]

get_layers ==
    IF preset = "custom" /\ Len(custom_layers) > 0
    THEN custom_layers
    ELSE ARCHITECTURE_PRESETS[IF preset \in DOMAIN ARCHITECTURE_PRESETS
                              THEN preset ELSE "standard"]

\* book_info: page p (1-based) belongs to chapter ChapterOf(p)
ChapterOf(p) == ((p - 1) \div PagesPerChapter) + 1

chapters == 1..ChapterOf(TotalPages)

\* _build_chapter_page_map: chapter id -> ascending page numbers
PagesOfChapter(ch) ==
    LET lo == (ch - 1) * PagesPerChapter + 1
        hi == IF ch * PagesPerChapter < TotalPages THEN ch * PagesPerChapter ELSE TotalPages
    IN  [i \in 1..(hi - lo + 1) |-> lo + i - 1]

CeilDiv(n, d) == (n + d - 1) \div d

\* number of batches the batch layer iterates over
TotalBatches(align) ==
    IF align
    THEN LET RECURSIVE Sum(_)
             Sum(ch) == IF ch = 0 THEN 0
                        ELSE Sum(ch - 1) + CeilDiv(Len(PagesOfChapter(ch)), pages_per_batch)
         IN  Sum(ChapterOf(TotalPages))
    ELSE CeilDiv(TotalPages, pages_per_batch)


\* ------------------------------------------------------------- task records
\* AnalysisTask as create_task builds it (task_type FULL_BOOK)
NewTask(b) ==
    [book_id |-> b, status |-> PENDING, started_at |-> 0, completed_at |-> 0,
     error_message |-> ""]

\* the local state of a worker thread running _execute_task(task)
NewWorker(t) ==
    [task |-> t, pc |-> "start", site |-> "", batch_idx |-> 0, batch_results |-> 0,
     layer_idx |-> 0, group_idx |-> 0, current_results |-> 0, summary_results |-> 0,
     saw_cancel |-> "", wrote |-> ""]

\* the empty dict: what a load of a missing file and an empty call return
EmptyDict == [id |-> 0, parse_error |-> FALSE, page_range |-> <<0, 0>>]

\* the locals of _execute_task and of the functions it calls, and the fields of
\* the task they write (failed_pages), before the thread starts.  outcomes is
\* history: what the environment answered to every batch attempted; steps is
\* history: the finalization steps that have run; runs is history: the tasks
\* of the book that ran before this one
IdleRun ==
    [pc |-> "idle", task_type |-> "", vlm_configured |-> TRUE, target_pages |-> <<>>,
     batch_groups |-> <<>>, batch_idx |-> 0, batch_results |-> <<>>,
     failed_pages |-> <<>>, outcomes |-> <<>>, layer_idx |-> 0,
     current_results |-> <<>>, group_idx |-> 0, summary_results |-> <<>>,
     gens |-> <<>>, steps |-> <<>>, step_errors |-> <<>>, analyzed_pages |-> 0, notifications |-> 0,
     invoked |-> <<>>, runs |-> 0]

\* the vector store of a book that was never indexed; builds is history: the
\* number of rebuilds that got as far as deleting entries
NoIndex == [pages |-> {}, events |-> {}, builds |-> 0]

\* the singleton after get_task_manager() has returned to every thread, the
\* first call having run __init__ alone; inits is history: the number of times
\* the body of __init__ has run
Constructed ==
    [instance |-> TRUE, initialized |-> TRUE, inits |-> 1,
     threads |-> [th \in 1..MaxThreads |-> "ready"]]

\* no book is loaded, the result store is empty and no worker run has data
NoData ==
    /\ batches = <<>>
    /\ page_store = <<>>
    /\ segments = <<>>
    /\ chapter_store = <<>>
    /\ vlm_calls = <<>>
    /\ acall = [op |-> "none", page_nums |-> <<>>, force |-> FALSE, outcome |-> "ok"]
    /\ aret = [kind |-> "none", value |-> EmptyDict]
    /\ all_images = <<>>
    /\ custom_layers = <<>>
    /\ settings = [pages_per_batch |-> pages_per_batch, context_batch_count |-> 1]
    /\ progress_callbacks = <<>>
    /\ vector_store = NoIndex
    /\ singleton = Constructed
    /\ run = IdleRun

Init ==
    /\ tasks = <<>>
    /\ book_tasks = [b \in Books |-> <<>>]
    /\ running_tasks = <<>>
    /\ pause_events = <<>>
    /\ cancel_flags = <<>>
    /\ workers = <<>>
    /\ clock = 0
    /\ preset \in DOMAIN ARCHITECTURE_PRESETS
    /\ ret = [op |-> "none", result |-> "none"]
    /\ pause_cancelled = {}
    /\ NoData

\* threading.Event.set(): every thread blocked in wait() on the event returns
Notify(ws, t) ==
    [w \in DOMAIN ws |->
        IF ws[w].task = t /\ ws[w].pc = "blocked" THEN [ws[w] EXCEPT !.pc = "woken"] ELSE ws[w]]

\* ------------------------------------------------------- controller operations
create_task(b) ==
    /\ Cardinality(DOMAIN tasks) < MaxTasks
    /\ LET tid == Cardinality(DOMAIN tasks) + 1 IN
        /\ tasks' = tasks @@ (tid :> NewTask(b))
        /\ book_tasks' = [book_tasks EXCEPT ![b] = Append(@, tid)]
        /\ pause_events' = pause_events @@ (tid :> TRUE)
        /\ cancel_flags' = cancel_flags @@ (tid :> FALSE)
    /\ ret' = [op |-> "create", result |-> "ok"]
    /\ UNCHANGED <<running_tasks, workers, clock, preset, pause_cancelled>>

\* faulty variant of start_task: status and start time are written before the
\* scan of the other tasks of the book
start_task_StampsFirst(tid) ==
    IF tid \in DOMAIN tasks /\ tasks[tid].status # RUNNING
    THEN IF \A o \in DOMAIN tasks :
                ~(o # tid /\ tasks[o].book_id = tasks[tid].book_id
                  /\ tasks[o].status = RUNNING)
         THEN /\ Len(workers) < MaxWorkers
              /\ clock' = clock + 1
              /\ tasks' = [tasks EXCEPT ![tid].status = RUNNING,
                                        ![tid].started_at = clock + 1]
              /\ workers' = Append(workers, NewWorker(tid))
              /\ running_tasks' = [x \in (DOMAIN running_tasks) \cup {tid} |->
                                      IF x = tid THEN Len(workers) + 1 ELSE running_tasks[x]]
              /\ ret' = [op |-> "start", result |-> "ok"]
              /\ UNCHANGED <<book_tasks, pause_events, cancel_flags, preset,
                             pause_cancelled>>
         ELSE /\ clock' = clock + 1
              /\ tasks' = [tasks EXCEPT ![tid].status = RUNNING,
                                        ![tid].started_at = clock + 1]
              /\ ret' = [op |-> "start", result |-> "rejected"]
              /\ UNCHANGED <<book_tasks, running_tasks, pause_events, cancel_flags,
                             workers, preset, pause_cancelled>>
    ELSE /\ ret' = [op |-> "start", result |-> "rejected"]
         /\ UNCHANGED <<tasks, book_tasks, running_tasks, pause_events, cancel_flags,
                        workers, clock, preset, pause_cancelled>>

\* the guard of start_task: the task exists, is not RUNNING, and no other task
\* of its book is RUNNING
StartAllowed(tid) ==
    /\ tid \in DOMAIN tasks
    /\ tasks[tid].status # RUNNING
    /\ \A i \in 1..Len(book_tasks[tasks[tid].book_id]) :
          LET other == book_tasks[tasks[tid].book_id][i] IN
            ~(other \in DOMAIN tasks /\ other # tid /\ tasks[other].status = RUNNING)

start_task(tid) ==
    IF StartAllowed(tid)
    THEN /\ Len(workers) < MaxWorkers
         /\ clock' = clock + 1
         /\ tasks' = [tasks EXCEPT ![tid].status = RUNNING, ![tid].started_at = clock + 1]
         /\ workers' = Append(workers, NewWorker(tid))
         /\ running_tasks' = [x \in (DOMAIN running_tasks) \cup {tid} |->
                                 IF x = tid THEN Len(workers) + 1 ELSE running_tasks[x]]
         /\ ret' = [op |-> "start", result |-> "ok"]
         /\ UNCHANGED <<book_tasks, pause_events, cancel_flags, preset, pause_cancelled>>
    ELSE /\ ret' = [op |-> "start", result |-> "rejected"]
         /\ UNCHANGED <<tasks, book_tasks, running_tasks, pause_events, cancel_flags,
                        workers, clock, preset, pause_cancelled>>

\* faulty variant of PauseAllowed: only an already Paused task is refused
PauseAllowed_UnlessPaused(tid) == tid \in DOMAIN tasks /\ tasks[tid].status # PAUSED

PauseAllowed(tid) == tid \in DOMAIN tasks /\ tasks[tid].status = RUNNING

\* faulty variant of pause_task: the pause event is not cleared
pause_task_KeepsGate(tid) ==
    IF tid \in DOMAIN tasks /\ tasks[tid].status = RUNNING
    THEN /\ tasks' = [tasks EXCEPT ![tid].status = PAUSED]
         /\ ret' = [op |-> "pause", result |-> "ok"]
         /\ UNCHANGED <<book_tasks, running_tasks, pause_events, cancel_flags, workers,
                        clock, preset, pause_cancelled>>
    ELSE /\ ret' = [op |-> "pause", result |-> "rejected"]
         /\ UNCHANGED <<tasks, book_tasks, running_tasks, pause_events, cancel_flags,
                        workers, clock, preset, pause_cancelled>>

pause_task(tid) ==
    IF PauseAllowed(tid)
    THEN /\ tasks' = [tasks EXCEPT ![tid].status = PAUSED]
         /\ pause_events' = [pause_events EXCEPT ![tid] = FALSE]
         /\ ret' = [op |-> "pause", result |-> "ok"]
         /\ UNCHANGED <<book_tasks, running_tasks, cancel_flags, workers, clock, preset,
                        pause_cancelled>>
    ELSE /\ ret' = [op |-> "pause", result |-> "rejected"]
         /\ UNCHANGED <<tasks, book_tasks, running_tasks, pause_events, cancel_flags,
                        workers, clock, preset, pause_cancelled>>

ResumeAllowed(tid) == tid \in DOMAIN tasks /\ tasks[tid].status = PAUSED

resume_task(tid) ==
    IF ResumeAllowed(tid)
    THEN /\ tasks' = [tasks EXCEPT ![tid].status = RUNNING]
         /\ pause_events' = [pause_events EXCEPT ![tid] = TRUE]
         /\ workers' = Notify(workers, tid)
         /\ ret' = [op |-> "resume", result |-> "ok"]
         /\ UNCHANGED <<book_tasks, running_tasks, cancel_flags, clock, preset,
                        pause_cancelled>>
    ELSE /\ ret' = [op |-> "resume", result |-> "rejected"]
         /\ UNCHANGED <<tasks, book_tasks, running_tasks, pause_events, cancel_flags,
                        workers, clock, preset, pause_cancelled>>

CancelAllowed(tid) ==
    tid \in DOMAIN tasks /\ tasks[tid].status \in {PENDING, RUNNING, PAUSED}

\* faulty variant of cancel_task: the pause event is not set, blocked workers stay
\* blocked
cancel_task_NoWake(tid) ==
    IF tid \in DOMAIN tasks /\ tasks[tid].status \in {PENDING, RUNNING, PAUSED}
    THEN /\ tasks' = [tasks EXCEPT ![tid].status = CANCELLED]
         /\ cancel_flags' = [cancel_flags EXCEPT ![tid] = TRUE]
         /\ pause_cancelled' = IF tasks[tid].status = PAUSED
                                THEN pause_cancelled \cup {tid} ELSE pause_cancelled
         /\ ret' = [op |-> "cancel", result |-> "ok"]
         /\ UNCHANGED <<book_tasks, running_tasks, pause_events, workers, clock, preset>>
    ELSE /\ ret' = [op |-> "cancel", result |-> "rejected"]
         /\ UNCHANGED <<tasks, book_tasks, running_tasks, pause_events, cancel_flags,
                        workers, clock, preset, pause_cancelled>>

cancel_task(tid) ==
    IF CancelAllowed(tid)
    THEN /\ tasks' = [tasks EXCEPT ![tid].status = CANCELLED]
         /\ cancel_flags' = [cancel_flags EXCEPT ![tid] = TRUE]
         /\ pause_events' = [pause_events EXCEPT ![tid] = TRUE]
         /\ workers' = Notify(workers, tid)
         /\ pause_cancelled' = IF tasks[tid].status = PAUSED
                                THEN pause_cancelled \cup {tid} ELSE pause_cancelled
         /\ ret' = [op |-> "cancel", result |-> "ok"]
         /\ UNCHANGED <<book_tasks, running_tasks, clock, preset>>
    ELSE /\ ret' = [op |-> "cancel", result |-> "rejected"]
         /\ UNCHANGED <<tasks, book_tasks, running_tasks, pause_events, cancel_flags,
                        workers, clock, preset, pause_cancelled>>

\* --------------------------------------------------------------- worker steps
Task(w) == workers[w].task

SetWorker(w, r) == [workers EXCEPT ![w] = r]

Cancelled(w) == cancel_flags[Task(w)]

\* _post_analysis_processing is entered next
EnterPost(r) ==
    [r EXCEPT !.pc = "post", !.site = "", !.batch_idx = 0, !.batch_results = 0,
              !.layer_idx = 0, !.group_idx = 0, !.current_results = 0,
              !.summary_results = 0]

\* _execute_full_book_batch_analysis returns to _execute_task (line 311)
ReturnToExecuteTask(r) ==
    [r EXCEPT !.pc = "final", !.site = "", !.batch_idx = 0, !.batch_results = 0,
              !.layer_idx = 0, !.group_idx = 0, !.current_results = 0,
              !.summary_results = 0]

\* head of the loop `for layer_idx in range(1, len(layers) - 1)`: the next
\* middle layer starts with a checkpoint, after the last one post-processing runs
LayerLoop(r) ==
    IF r.layer_idx < Len(get_layers) - 1
    THEN [r EXCEPT !.pc = "cp1", !.site = "layer"]
    ELSE EnterPost(r)

\* the batch layer has returned batch_results
AfterBatchLayer(r) ==
    IF r.batch_results = 0
    THEN EnterPost(r)
    ELSE LayerLoop([r EXCEPT !.current_results = r.batch_results, !.batch_results = 0,
                             !.batch_idx = 0, !.layer_idx = 1])

\* a middle layer has returned n results
LayerDone(r, n) ==
    LayerLoop([r EXCEPT !.current_results = n, !.summary_results = 0, !.group_idx = 0,
                        !.layer_idx = r.layer_idx + 1])

\* units_per_group as _execute_summary_layer uses it (<= 0 means all in one group)
EffectiveUnits(u, n) == IF u <= 0 THEN n ELSE u

\* faulty variant of TotalGroups: the division rounds down
TotalGroups_Floor(u, n) == n \div EffectiveUnits(u, n)

TotalGroups(u, n) == CeilDiv(n, EffectiveUnits(u, n))

\* body of the middle-layer loop after its checkpoint, up to the first
\* checkpoint of the layer it dispatches to
EnterLayer(r) ==
    LET layer == get_layers[r.layer_idx + 1] IN
    IF layer.align_to_chapter /\ layer.units_per_group = 0
    THEN IF chapters = {}
         THEN LayerDone(r, 0)
         ELSE [r EXCEPT !.pc = "cp1", !.site = "chapter", !.group_idx = 0,
                        !.summary_results = 0]
    ELSE IF r.current_results = 0
         THEN LayerDone(r, 0)
         ELSE [r EXCEPT !.pc = "cp1", !.site = "group", !.group_idx = 0,
                        !.summary_results = 0]

\* what the caller of _check_pause_and_cancel does when it returns False
CheckpointStop(r, where) ==
    LET s == [r EXCEPT !.saw_cancel = IF r.saw_cancel = "" THEN where ELSE r.saw_cancel] IN
    CASE r.site = "batch" -> AfterBatchLayer(s)
      [] r.site = "layer" -> ReturnToExecuteTask(s)
      [] OTHER            -> LayerDone(s, s.summary_results)

\* what the caller of _check_pause_and_cancel does when it returns True
CheckpointGo(r) ==
    CASE r.site = "batch"   -> [r EXCEPT !.pc = "batch"]
      [] r.site = "layer"   -> EnterLayer(r)
      [] r.site = "group"   -> [r EXCEPT !.pc = "group"]
      [] OTHER              -> [r EXCEPT !.pc = "chapter"]

\* _check_pause_and_cancel, first test of the cancel flag
CheckBeforeGate(r, flag) ==
    IF flag THEN CheckpointStop(r, "before_gate") ELSE [r EXCEPT !.pc = "wait"]

\* _check_pause_and_cancel, pause_event.wait()
WaitGate(r, event) ==
    IF event THEN [r EXCEPT !.pc = "cp2"] ELSE [r EXCEPT !.pc = "blocked"]

\* faulty variant of CheckAfterGate: the cancel flag is not tested again after the
\* wait
CheckAfterGate_NoRecheck(r, flag) == CheckpointGo(r)

\* _check_pause_and_cancel, second test of the cancel flag
CheckAfterGate(r, flag) ==
    IF flag
    THEN CheckpointStop(r, IF r.pc = "woken" THEN "after_wake" ELSE "after_gate")
    ELSE CheckpointGo(r)

WorkerOnly == UNCHANGED <<tasks, book_tasks, running_tasks, pause_events, cancel_flags,
                          clock, preset, ret, pause_cancelled>>

\* _execute_task up to the first checkpoint: _execute_full_book_analysis raises
\* ValueError (VLM not configured, no pages) or enters the batch layer
execute_full_book_analysis(w) ==
    /\ workers[w].pc = "start"
    /\ \/ /\ workers' = SetWorker(w, [workers[w] EXCEPT !.pc = "cp1", !.site = "batch"])
          /\ WorkerOnly
       \/ /\ workers' = SetWorker(w, [workers[w] EXCEPT !.pc = "cleanup", !.wrote = FAILED])
          /\ tasks' = [tasks EXCEPT ![Task(w)].status = FAILED,
                                    ![Task(w)].error_message = "ValueError"]
          /\ UNCHANGED <<book_tasks, running_tasks, pause_events, cancel_flags,
                         clock, preset, ret, pause_cancelled>>

check_cancel_before_gate(w) ==
    /\ workers[w].pc = "cp1"
    /\ workers' = SetWorker(w, CheckBeforeGate(workers[w], Cancelled(w)))
    /\ WorkerOnly

wait_pause_event(w) ==
    /\ workers[w].pc = "wait"
    /\ workers' = SetWorker(w, WaitGate(workers[w], pause_events[Task(w)]))
    /\ WorkerOnly

check_cancel_after_gate(w) ==
    /\ workers[w].pc \in {"cp2", "woken"}
    /\ workers' = SetWorker(w, CheckAfterGate(workers[w], Cancelled(w)))
    /\ WorkerOnly

\* _analyze_single_batch: the batch succeeds (result appended) or fails (None)
analyze_single_batch(w) ==
    /\ workers[w].pc = "batch"
    /\ \E ok \in BOOLEAN :
         LET r == workers[w]
             n == IF ok THEN r.batch_results + 1 ELSE r.batch_results
             total == TotalBatches(get_layers[1].align_to_chapter)
         IN  workers' = SetWorker(w,
                 IF r.batch_idx + 1 < total
                 THEN [r EXCEPT !.pc = "cp1", !.batch_idx = r.batch_idx + 1,
                                !.batch_results = n]
                 ELSE AfterBatchLayer([r EXCEPT !.batch_results = n]))
    /\ WorkerOnly

\* one group of _execute_summary_layer: generate_segment_summary returns or raises
generate_segment_summary(w) ==
    /\ workers[w].pc = "group"
    /\ \E ok \in BOOLEAN :
         LET r == workers[w]
             n == IF ok THEN r.summary_results + 1 ELSE r.summary_results
             total == TotalGroups(get_layers[r.layer_idx + 1].units_per_group,
                                  r.current_results)
         IN  workers' = SetWorker(w,
                 IF r.group_idx + 1 < total
                 THEN [r EXCEPT !.pc = "cp1", !.group_idx = r.group_idx + 1,
                                !.summary_results = n]
                 ELSE LayerDone(r, n))
    /\ WorkerOnly

\* one chapter of _execute_chapter_summary_layer: a result, or None / an error
generate_chapter_summary(w) ==
    /\ workers[w].pc = "chapter"
    /\ \E ok \in BOOLEAN :
         LET r == workers[w]
             n == IF ok THEN r.summary_results + 1 ELSE r.summary_results
         IN  workers' = SetWorker(w,
                 IF r.group_idx + 1 < Cardinality(chapters)
                 THEN [r EXCEPT !.pc = "cp1", !.group_idx = r.group_idx + 1,
                                !.summary_results = n]
                 ELSE LayerDone(r, n))
    /\ WorkerOnly

\* _post_analysis_processing: build_embeddings() then generate_overview(), the
\* errors of both are only logged
post_analysis_processing(w) ==
    /\ workers[w].pc = "post"
    /\ workers' = SetWorker(w, [workers[w] EXCEPT !.pc = "final"])
    /\ WorkerOnly

\* _execute_task line 311: the cancel flag decides between CANCELLED and completion
check_cancelled(w) ==
    /\ workers[w].pc = "final"
    /\ IF Cancelled(w)
       THEN /\ tasks' = [tasks EXCEPT ![Task(w)].status = CANCELLED]
            /\ workers' = SetWorker(w, [workers[w] EXCEPT !.pc = "cleanup",
                                                          !.wrote = CANCELLED])
       ELSE /\ workers' = SetWorker(w, [workers[w] EXCEPT !.pc = "timeline"])
            /\ UNCHANGED tasks
    /\ UNCHANGED <<book_tasks, running_tasks, pause_events, cancel_flags, clock,
                   preset, ret, pause_cancelled>>

\* _build_timeline_on_complete (errors only logged), then status COMPLETED
build_timeline_on_complete(w) ==
    /\ workers[w].pc = "timeline"
    /\ tasks' = [tasks EXCEPT ![Task(w)].status = COMPLETED,
                              ![Task(w)].completed_at = clock]
    /\ workers' = SetWorker(w, [workers[w] EXCEPT !.pc = "cleanup", !.wrote = COMPLETED])
    /\ UNCHANGED <<book_tasks, running_tasks, pause_events, cancel_flags, clock,
                   preset, ret, pause_cancelled>>

\* _execute_task finally: the entry of running_tasks is deleted, the thread ends
cleanup(w) ==
    /\ workers[w].pc = "cleanup"
    /\ running_tasks' = [x \in (DOMAIN running_tasks) \ {Task(w)} |-> running_tasks[x]]
    /\ workers' = SetWorker(w, [NewWorker(Task(w)) EXCEPT !.pc = "dead"])
    /\ UNCHANGED <<tasks, book_tasks, pause_events, cancel_flags, clock, preset, ret,
                   pause_cancelled>>

WorkerStep(w) ==
    \/ execute_full_book_analysis(w)
    \/ check_cancel_before_gate(w)
    \/ wait_pause_event(w)
    \/ check_cancel_after_gate(w)
    \/ analyze_single_batch(w)
    \/ generate_segment_summary(w)
    \/ generate_chapter_summary(w)
    \/ post_analysis_processing(w)
    \/ check_cancelled(w)
    \/ build_timeline_on_complete(w)
    \/ cleanup(w)

Next ==
    \/ \E b \in Books : create_task(b) /\ UNCHANGED DataVars
    \/ \E tid \in TaskIds : start_task(tid) /\ UNCHANGED DataVars
    \/ \E tid \in TaskIds : pause_task(tid) /\ UNCHANGED DataVars
    \/ \E tid \in TaskIds : resume_task(tid) /\ UNCHANGED DataVars
    \/ \E tid \in TaskIds : cancel_task(tid) /\ UNCHANGED DataVars
    \/ \E w \in DOMAIN workers : execute_full_book_analysis(w) /\ UNCHANGED DataVars
    \/ \E w \in DOMAIN workers : check_cancel_before_gate(w) /\ UNCHANGED DataVars
    \/ \E w \in DOMAIN workers : wait_pause_event(w) /\ UNCHANGED DataVars
    \/ \E w \in DOMAIN workers : check_cancel_after_gate(w) /\ UNCHANGED DataVars
    \/ \E w \in DOMAIN workers : analyze_single_batch(w) /\ UNCHANGED DataVars
    \/ \E w \in DOMAIN workers : generate_segment_summary(w) /\ UNCHANGED DataVars
    \/ \E w \in DOMAIN workers : generate_chapter_summary(w) /\ UNCHANGED DataVars
    \/ \E w \in DOMAIN workers : post_analysis_processing(w) /\ UNCHANGED DataVars
    \/ \E w \in DOMAIN workers : check_cancelled(w) /\ UNCHANGED DataVars
    \/ \E w \in DOMAIN workers : build_timeline_on_complete(w) /\ UNCHANGED DataVars
    \/ \E w \in DOMAIN workers : cleanup(w) /\ UNCHANGED DataVars

\* the configuration whose preset has every kind of layer
FullInit == Init /\ preset = "full"

\* two tasks of one book under the full preset
Spec == FullInit /\ [][Next]_vars

\* the same operations with at most LiveTasks tasks created
TaskNext ==
    \/ \E b \in Books : Cardinality(DOMAIN tasks) < LiveTasks /\ create_task(b) /\ UNCHANGED DataVars
    \/ \E tid \in TaskIds : start_task(tid) /\ UNCHANGED DataVars
    \/ \E tid \in TaskIds : pause_task(tid) /\ UNCHANGED DataVars
    \/ \E tid \in TaskIds : resume_task(tid) /\ UNCHANGED DataVars
    \/ \E tid \in TaskIds : cancel_task(tid) /\ UNCHANGED DataVars
    \/ \E w \in DOMAIN workers : execute_full_book_analysis(w) /\ UNCHANGED DataVars
    \/ \E w \in DOMAIN workers : check_cancel_before_gate(w) /\ UNCHANGED DataVars
    \/ \E w \in DOMAIN workers : wait_pause_event(w) /\ UNCHANGED DataVars
    \/ \E w \in DOMAIN workers : check_cancel_after_gate(w) /\ UNCHANGED DataVars
    \/ \E w \in DOMAIN workers : analyze_single_batch(w) /\ UNCHANGED DataVars
    \/ \E w \in DOMAIN workers : generate_segment_summary(w) /\ UNCHANGED DataVars
    \/ \E w \in DOMAIN workers : generate_chapter_summary(w) /\ UNCHANGED DataVars
    \/ \E w \in DOMAIN workers : post_analysis_processing(w) /\ UNCHANGED DataVars
    \/ \E w \in DOMAIN workers : check_cancelled(w) /\ UNCHANGED DataVars
    \/ \E w \in DOMAIN workers : build_timeline_on_complete(w) /\ UNCHANGED DataVars
    \/ \E w \in DOMAIN workers : cleanup(w) /\ UNCHANGED DataVars

\* one task, started and restarted, under every preset
TaskSpec == Init /\ [][TaskNext]_vars

\* every worker thread is scheduled fairly and every external call returns; the
\* controller calls are made by the route layer and are under no obligation
FairSpec ==
    /\ FullInit
    /\ [][TaskNext]_vars
    /\ \A w \in 1..MaxWorkers :
          WF_vars(w \in DOMAIN workers /\ WorkerStep(w) /\ UNCHANGED DataVars)

\* start_task up to thread.start() (line 137): the worker thread runs, its
\* entry of running_tasks is not yet written
start_thread(tid) ==
    IF StartAllowed(tid)
    THEN /\ Len(workers) < MaxWorkers
         /\ clock' = clock + 1
         /\ tasks' = [tasks EXCEPT ![tid].status = RUNNING, ![tid].started_at = clock + 1]
         /\ workers' = Append(workers, NewWorker(tid))
         /\ ret' = [op |-> "start", result |-> "launched"]
         /\ UNCHANGED <<book_tasks, running_tasks, pause_events, cancel_flags, preset,
                        pause_cancelled>>
    ELSE /\ ret' = [op |-> "start", result |-> "rejected"]
         /\ UNCHANGED <<tasks, book_tasks, running_tasks, pause_events, cancel_flags,
                        workers, clock, preset, pause_cancelled>>

\* a call of start_task has started its thread and has not yet returned
InStartTask == ret = [op |-> "start", result |-> "launched"]

\* start_task line 138, `self.running_tasks[task_id] = thread`, and the return:
\* the thread registered is the one launched last
register_thread ==
    /\ InStartTask
    /\ LET tid == workers[Len(workers)].task IN
         running_tasks' = [x \in (DOMAIN running_tasks) \cup {tid} |->
                              IF x = tid THEN Len(workers) ELSE running_tasks[x]]
    /\ ret' = [op |-> "start", result |-> "ok"]
    /\ UNCHANGED <<tasks, book_tasks, pause_events, cancel_flags, workers, clock, preset,
                   pause_cancelled>>

\* the controller calls run on one event loop and none of them awaits: no other
\* call begins while start_task is between its lines 137 and 138, the worker
\* threads run freely
RegisterNext ==
    \/ \E b \in Books : /\ ~InStartTask
                        /\ Cardinality(DOMAIN tasks) < LiveTasks
                        /\ create_task(b) /\ UNCHANGED DataVars
    \/ \E tid \in TaskIds : ~InStartTask /\ start_thread(tid) /\ UNCHANGED DataVars
    \/ register_thread /\ UNCHANGED DataVars
    \/ \E tid \in TaskIds : ~InStartTask /\ pause_task(tid) /\ UNCHANGED DataVars
    \/ \E tid \in TaskIds : ~InStartTask /\ resume_task(tid) /\ UNCHANGED DataVars
    \/ \E tid \in TaskIds : ~InStartTask /\ cancel_task(tid) /\ UNCHANGED DataVars
    \/ \E w \in DOMAIN workers : execute_full_book_analysis(w) /\ UNCHANGED DataVars
    \/ \E w \in DOMAIN workers : check_cancel_before_gate(w) /\ UNCHANGED DataVars
    \/ \E w \in DOMAIN workers : wait_pause_event(w) /\ UNCHANGED DataVars
    \/ \E w \in DOMAIN workers : check_cancel_after_gate(w) /\ UNCHANGED DataVars
    \/ \E w \in DOMAIN workers : analyze_single_batch(w) /\ UNCHANGED DataVars
    \/ \E w \in DOMAIN workers : generate_segment_summary(w) /\ UNCHANGED DataVars
    \/ \E w \in DOMAIN workers : generate_chapter_summary(w) /\ UNCHANGED DataVars
    \/ \E w \in DOMAIN workers : post_analysis_processing(w) /\ UNCHANGED DataVars
    \/ \E w \in DOMAIN workers : check_cancelled(w) /\ UNCHANGED DataVars
    \/ \E w \in DOMAIN workers : build_timeline_on_complete(w) /\ UNCHANGED DataVars
    \/ \E w \in DOMAIN workers : cleanup(w) /\ UNCHANGED DataVars

\* one task under the full preset, with start_task in its two steps: the thread
\* is started, then registered
RegisterSpec == FullInit /\ [][RegisterNext]_vars

\* -------------------------------------------------- the controller singleton
Threads == 1..MaxThreads

\* what no step of a constructor call writes
SingletonFrame ==
    UNCHANGED <<workers, clock, preset, ret, pause_cancelled, batches, page_store,
                segments, chapter_store, vlm_calls, acall, aret, all_images,
                custom_layers, settings, vector_store, run>>

TablesUnchanged ==
    UNCHANGED <<tasks, book_tasks, running_tasks, pause_events, cancel_flags,
                progress_callbacks>>

\* AnalysisTaskManager.__new__ under get_task_manager(): the first caller makes
\* the instance with _initialized = False (under the class lock), every caller
\* goes on to __init__ with the one instance
singleton_new(th) ==
    /\ singleton.threads[th] = "idle"
    /\ singleton' = [singleton EXCEPT
                        !.initialized = IF singleton.instance THEN @ ELSE FALSE,
                        !.instance = TRUE,
                        !.threads[th] = "init"]
    /\ TablesUnchanged
    /\ SingletonFrame

\* __init__ line 38: `if self._initialized: return`, read without the lock
singleton_init_check(th) ==
    /\ singleton.threads[th] = "init"
    /\ singleton' = [singleton EXCEPT
                        !.threads[th] = IF singleton.initialized THEN "ready" ELSE "body"]
    /\ TablesUnchanged
    /\ SingletonFrame

\* __init__ lines 41-47: the tables are bound to new empty dicts, then
\* _initialized is set
singleton_init_body(th) ==
    /\ singleton.threads[th] = "body"
    /\ tasks' = <<>>
    /\ running_tasks' = <<>>
    /\ book_tasks' = [b \in Books |-> <<>>]
    /\ progress_callbacks' = <<>>
    /\ pause_events' = <<>>
    /\ cancel_flags' = <<>>
    /\ singleton' = [singleton EXCEPT !.initialized = TRUE, !.inits = @ + 1,
                                      !.threads[th] = "ready"]
    /\ SingletonFrame

\* a thread whose get_task_manager() has returned creates a task through its
\* reference
singleton_create_task(th, b) ==
    /\ singleton.threads[th] = "ready"
    /\ create_task(b)
    /\ UNCHANGED DataVars

\* nothing is constructed yet and no thread has called get_task_manager()
SingletonInit ==
    /\ tasks = <<>>
    /\ book_tasks = [b \in Books |-> <<>>]
    /\ running_tasks = <<>>
    /\ pause_events = <<>>
    /\ cancel_flags = <<>>
    /\ workers = <<>>
    /\ clock = 0
    /\ preset = "full"
    /\ ret = [op |-> "none", result |-> "none"]
    /\ pause_cancelled = {}
    /\ batches = <<>>
    /\ page_store = <<>>
    /\ segments = <<>>
    /\ chapter_store = <<>>
    /\ vlm_calls = <<>>
    /\ acall = [op |-> "none", page_nums |-> <<>>, force |-> FALSE, outcome |-> "ok"]
    /\ aret = [kind |-> "none", value |-> EmptyDict]
    /\ all_images = <<>>
    /\ custom_layers = <<>>
    /\ settings = [pages_per_batch |-> pages_per_batch, context_batch_count |-> 1]
    /\ progress_callbacks = <<>>
    /\ vector_store = NoIndex
    /\ singleton = [instance |-> FALSE, initialized |-> FALSE, inits |-> 0,
                    threads |-> [th \in Threads |-> "idle"]]
    /\ run = IdleRun

SingletonNext ==
    \/ \E th \in Threads : singleton_new(th)
    \/ \E th \in Threads : singleton_init_check(th)
    \/ \E th \in Threads : singleton_init_body(th)
    \/ \E th \in Threads, b \in Books : singleton_create_task(th, b)

\* several threads call get_task_manager() for the first time and use the
\* controller they get
SingletonSpec == SingletonInit /\ [][SingletonNext]_vars

\* ------------------------------------------------- result store and analyzer
Pages == 1..MaxPages

Range(seq) == {seq[i] : i \in DOMAIN seq}

Min(S) == CHOOSE x \in S : \A y \in S : x <= y

Max(S) == CHOOSE x \in S : \A y \in S : x >= y

\* python truthiness of a result dict
Truthy(r) == r.id # 0

\* storage.load_batch_analysis on the directory contents bs
load_batch_analysis(bs, start_page, end_page) ==
    IF <<start_page, end_page>> \in DOMAIN bs THEN bs[<<start_page, end_page>>] ELSE EmptyDict

\* storage.save_batch_analysis: the file of the range is rewritten, page_range set
save_batch_analysis(bs, start_page, end_page, analysis) ==
    [k \in DOMAIN bs \cup {<<start_page, end_page>>} |->
        IF k = <<start_page, end_page>>
        THEN [analysis EXCEPT !.page_range = <<start_page, end_page>>]
        ELSE bs[k]]

\* storage.delete_batch_analysis
delete_batch_analysis(bs, start_page, end_page) ==
    [k \in DOMAIN bs \ {<<start_page, end_page>>} |-> bs[k]]

\* storage.list_batches, read in reverse: the stored ranges that end before
\* start_page and have the greatest start page (the sort key is start_page
\* only, ranges with the same start come in directory order)
LastBatchBefore(bs, start_page) ==
    LET before == {k \in DOMAIN bs : k[2] < start_page}
    IN  {k \in before : \A o \in before : o[1] <= k[1]}

\* _format_previous_results: the results that contribute text, in order
format_previous_results(results) ==
    SelectSeq(results, LAMBDA r : Truthy(r) /\ ~r.parse_error)

\* _build_batch_context: the contexts the call can build (the ids of the
\* results formatted into previous_summary)
build_batch_context(bs, start_page, previous_results) ==
    IF Len(previous_results) > 0
    THEN {format_previous_results(previous_results)}
    ELSE IF start_page > 1 /\ LastBatchBefore(bs, start_page) # {}
         THEN {format_previous_results(<<bs[k]>>) : k \in LastBatchBefore(bs, start_page)}
         ELSE {<<>>}

\* the page records analyze_batch writes for the pages of a result
save_page_analysis(ps, page_nums, result) ==
    IF result.parse_error THEN ps
    ELSE [p \in DOMAIN ps \cup Range(page_nums) |->
            IF p \in Range(page_nums)
            THEN [id |-> result.id, batch_range |-> result.page_range]
            ELSE ps[p]]

\* faulty variant of analyze_batch: the cache is not consulted
analyze_batch_NoCache(bs, page_nums, image_infos, force, previous_results, outcome) ==
    IF page_nums = <<>>
    THEN /\ aret' = [kind |-> "return", value |-> EmptyDict]
         /\ batches' = bs
         /\ UNCHANGED <<page_store, vlm_calls>>
    ELSE LET start_page == Min(Range(page_nums))
             end_page == Max(Range(page_nums))
         IN  IF ~image_infos \/ outcome = "no_image"
             THEN /\ aret' = [kind |-> "raise", value |-> EmptyDict]
                  /\ batches' = bs
                  /\ UNCHANGED <<page_store, vlm_calls>>
             ELSE \E context \in build_batch_context(bs, start_page, previous_results) :
                    /\ vlm_calls' = Append(vlm_calls,
                            [start_page |-> start_page, page_nums |-> page_nums,
                             context |-> context])
                    /\ IF outcome = "vlm_error"
                       THEN /\ aret' = [kind |-> "raise", value |-> EmptyDict]
                            /\ batches' = bs
                            /\ UNCHANGED page_store
                       ELSE LET result == [id |-> Len(vlm_calls) + 1,
                                           parse_error |-> (outcome = "parse_error"),
                                           page_range |-> <<start_page, end_page>>]
                            IN  /\ batches' = save_batch_analysis(bs, start_page, end_page, result)
                                /\ page_store' = save_page_analysis(page_store, page_nums, result)
                                /\ aret' = [kind |-> "return", value |-> result]

\* faulty variant of analyze_batch: a failure of the client is recorded under
\* the range of the batch
analyze_batch_RecordsFailure(bs, page_nums, image_infos, force, previous_results, outcome) ==
    IF page_nums = <<>>
    THEN /\ aret' = [kind |-> "return", value |-> EmptyDict]
         /\ batches' = bs
         /\ UNCHANGED <<page_store, vlm_calls>>
    ELSE LET start_page == Min(Range(page_nums))
             end_page == Max(Range(page_nums))
             cached == load_batch_analysis(bs, start_page, end_page)
         IN  IF ~force /\ Truthy(cached) /\ ~cached.parse_error
             THEN /\ aret' = [kind |-> "return", value |-> cached]
                  /\ batches' = bs
                  /\ UNCHANGED <<page_store, vlm_calls>>
             ELSE IF ~image_infos \/ outcome = "no_image"
             THEN /\ aret' = [kind |-> "raise", value |-> EmptyDict]
                  /\ batches' = bs
                  /\ UNCHANGED <<page_store, vlm_calls>>
             ELSE \E context \in build_batch_context(bs, start_page, previous_results) :
                    /\ vlm_calls' = Append(vlm_calls,
                            [start_page |-> start_page, page_nums |-> page_nums,
                             context |-> context])
                    /\ LET result == [id |-> Len(vlm_calls) + 1,
                                      parse_error |-> (outcome # "ok"),
                                      page_range |-> <<start_page, end_page>>]
                       IN  IF outcome = "vlm_error"
                           THEN /\ aret' = [kind |-> "raise", value |-> EmptyDict]
                                /\ batches' = save_batch_analysis(bs, start_page, end_page,
                                                                   result)
                                /\ UNCHANGED page_store
                           ELSE /\ batches' = save_batch_analysis(bs, start_page, end_page,
                                                                   result)
                                /\ page_store' = save_page_analysis(page_store, page_nums,
                                                                    result)
                                /\ aret' = [kind |-> "return", value |-> result]

\* MangaAnalyzer.analyze_batch(page_nums, None, image_infos, force,
\* previous_results) on the batches/ directory bs.  image_infos is FALSE for
\* None; outcome is what the environment does to the call: "no_image" (a page
\* file is gone), "vlm_error" (the client raises), "parse_error" or "ok"
analyze_batch(bs, page_nums, image_infos, force, previous_results, outcome) ==
    IF page_nums = <<>>
    THEN /\ aret' = [kind |-> "return", value |-> EmptyDict]
         /\ batches' = bs
         /\ UNCHANGED <<page_store, vlm_calls>>
    ELSE LET start_page == Min(Range(page_nums))
             end_page == Max(Range(page_nums))
             cached == load_batch_analysis(bs, start_page, end_page)
         IN  IF ~force /\ Truthy(cached) /\ ~cached.parse_error
             THEN /\ aret' = [kind |-> "return", value |-> cached]
                  /\ batches' = bs
                  /\ UNCHANGED <<page_store, vlm_calls>>
             ELSE IF ~image_infos \/ outcome = "no_image"
             THEN /\ aret' = [kind |-> "raise", value |-> EmptyDict]
                  /\ batches' = bs
                  /\ UNCHANGED <<page_store, vlm_calls>>
             ELSE \E context \in build_batch_context(bs, start_page, previous_results) :
                    /\ vlm_calls' = Append(vlm_calls,
                            [start_page |-> start_page, page_nums |-> page_nums,
                             context |-> context])
                    /\ IF outcome = "vlm_error"
                       THEN /\ aret' = [kind |-> "raise", value |-> EmptyDict]
                            /\ batches' = bs
                            /\ UNCHANGED page_store
                       ELSE LET result == [id |-> Len(vlm_calls) + 1,
                                           parse_error |-> (outcome = "parse_error"),
                                           page_range |-> <<start_page, end_page>>]
                            IN  /\ batches' = save_batch_analysis(bs, start_page, end_page, result)
                                /\ page_store' = save_page_analysis(page_store, page_nums, result)
                                /\ aret' = [kind |-> "return", value |-> result]

\* MangaAnalyzer.reanalyze_batch(start_page, end_page)
reanalyze_batch(start_page, end_page, outcome) ==
    analyze_batch(delete_batch_analysis(batches, start_page, end_page),
                  [i \in 1..(end_page - start_page + 1) |-> start_page + i - 1],
                  FALSE, TRUE, <<>>, outcome)

Outcomes == {"ok", "parse_error", "vlm_error", "no_image"}

\* the page lists handed to the analyzer: the empty list, every run of
\* consecutive pages, and one list that is not ascending
PageLists ==
    {<<>>, <<2, 1>>}
    \cup {[i \in 1..(e - s + 1) |-> s + i - 1] : s \in Pages, e \in Pages}

\* the results a caller can pass as previous_results: none, or one stored result
PreviousResults == {<<>>} \cup {<<batches[k]>> : k \in DOMAIN batches}

\* a caller invokes analyze_batch with image infos for every page
call_analyze_batch(page_nums, force, previous_results, outcome) ==
    /\ analyze_batch(batches, page_nums, TRUE, force, previous_results, outcome)
    /\ Len(vlm_calls') <= MaxCalls
    /\ acall' = [op |-> "analyze_batch", page_nums |-> page_nums, force |-> force,
                 outcome |-> outcome]
    /\ UNCHANGED <<segments, chapter_store, all_images, custom_layers, settings,
                   progress_callbacks, vector_store, singleton, run>>
    /\ UNCHANGED ControllerVars

\* a caller invokes reanalyze_batch
call_reanalyze_batch(start_page, end_page, outcome) ==
    /\ reanalyze_batch(start_page, end_page, outcome)
    /\ Len(vlm_calls') <= MaxCalls
    /\ acall' = [op |-> "reanalyze_batch", page_nums |-> <<start_page, end_page>>,
                 force |-> TRUE, outcome |-> outcome]
    /\ UNCHANGED <<segments, chapter_store, all_images, custom_layers, settings,
                   progress_callbacks, vector_store, singleton, run>>
    /\ UNCHANGED ControllerVars

AnalyzerNext ==
    \/ \E page_nums \in PageLists, force \in BOOLEAN,
          previous_results \in PreviousResults, outcome \in Outcomes :
            call_analyze_batch(page_nums, force, previous_results, outcome)
    \/ \E start_page \in Pages, end_page \in Pages, outcome \in Outcomes :
            call_reanalyze_batch(start_page, end_page, outcome)

\* the analyzer of one book, called directly on an initially empty store
AnalyzerSpec == FullInit /\ [][AnalyzerNext]_vars

\* MangaVectorStore.delete_all_pages
delete_all_pages(vs) == [vs EXCEPT !.pages = {}]

\* MangaVectorStore.delete_all_events
delete_all_events(vs) == [vs EXCEPT !.events = {}]

\* MangaVectorStore.add_page_embedding(page_num, ...): the entry of the page.
\* built is history: the rebuild that added the entry
add_page_embedding(vs, page_num) ==
    [vs EXCEPT !.pages = {e \in @ : e.page_num # page_num}
                         \cup {[page_num |-> page_num, built |-> vs.builds]}]

\* MangaVectorStore.add_event_embedding(event_id, ...): the entry of the event
add_event_embedding(vs, event_id) ==
    [vs EXCEPT !.events = {e \in @ : e.event_id # event_id}
                          \cup {[event_id |-> event_id, built |-> vs.builds]}]

\* the page numbers of batch_data["pages"] that have a page summary: a result
\* that is no parse error describes every page of its range
PagesWithSummary(batch_data) ==
    IF batch_data.parse_error THEN {}
    ELSE batch_data.page_range[1]..batch_data.page_range[2]

\* the indices of the key events of batch_data of 5 characters or more: a
\* result that is no parse error has one
QualifyingEvents(batch_data) == IF batch_data.parse_error THEN {} ELSE {0}

\* what the embedding side does to a rebuild: every text is embedded ("ok"),
\* every embed call raises ("embed_error"), there is no embedding client or no
\* vector store ("unavailable"), or the vector store raises on the first
\* call made to it ("raise")
Embeddings == {"ok", "embed_error", "unavailable", "raise"}

RECURSIVE AddPages(_, _)
AddPages(vs, page_nums) ==
    IF page_nums = {} THEN vs
    ELSE LET p == Min(page_nums) IN AddPages(add_page_embedding(vs, p), page_nums \ {p})

RECURSIVE AddEvents(_, _)
AddEvents(vs, event_ids) ==
    IF event_ids = {} THEN vs
    ELSE LET e == CHOOSE x \in event_ids : TRUE
         IN  AddEvents(add_event_embedding(vs, e), event_ids \ {e})

\* MangaAnalyzer._build_embeddings_from_pages on the pages/ directory ps:
\* the page entries are deleted, then every stored page is indexed
build_embeddings_from_pages(vs, ps, emb) ==
    IF DOMAIN ps = {} THEN vs
    ELSE LET cleared == delete_all_pages([vs EXCEPT !.builds = @ + 1])
         IN  IF emb = "embed_error" THEN cleared ELSE AddPages(cleared, DOMAIN ps)

\* MangaAnalyzer.build_embeddings on the batches/ directory bs and the pages/
\* directory ps: the vector store after the call
build_embeddings(vs, bs, ps, emb) ==
    IF emb \in {"unavailable", "raise"} THEN vs
    ELSE IF DOMAIN bs = {} THEN build_embeddings_from_pages(vs, ps, emb)
    ELSE LET cleared == delete_all_events(delete_all_pages([vs EXCEPT !.builds = @ + 1]))
         IN  IF emb = "embed_error" THEN cleared
             ELSE AddEvents(
                    AddPages(cleared, UNION {PagesWithSummary(bs[k]) : k \in DOMAIN bs}),
                    UNION {{<<k[1], k[2], i>> : i \in QualifyingEvents(bs[k])} : k \in DOMAIN bs})

\* a caller invokes build_embeddings
call_build_embeddings(emb) ==
    /\ vector_store.builds < MaxBuilds
    /\ vector_store' = build_embeddings(vector_store, batches, page_store, emb)
    /\ acall' = [op |-> "build_embeddings", page_nums |-> <<>>, force |-> FALSE,
                 outcome |-> emb]
    /\ aret' = [kind |-> IF emb = "raise" THEN "raise" ELSE "return", value |-> EmptyDict]
    /\ UNCHANGED <<batches, page_store, segments, chapter_store, vlm_calls, all_images,
                   custom_layers, settings, progress_callbacks, singleton, run>>
    /\ UNCHANGED ControllerVars

\* analyses and re-analyses of batches of one or two pages
IndexNext ==
    \/ \E page_nums \in {l \in PageLists : Len(l) \in 1..2}, outcome \in Outcomes :
            call_analyze_batch(page_nums, TRUE, <<>>, outcome)
    \/ \E start_page \in Pages, end_page \in Pages, outcome \in Outcomes :
            /\ end_page - start_page \in 0..1
            /\ call_reanalyze_batch(start_page, end_page, outcome)
    \/ \E emb \in Embeddings : call_build_embeddings(emb)

\* the analyzer and the vector store of one book: analyses, re-analyses and
\* rebuilds of the index, on an initially empty store and index
IndexSpec == FullInit /\ [][IndexNext]_vars

\* ------------------------------------------------------- one worker run, data
\* the task whose run is followed
TheTask == 1

\* book["chapters"]: the chapter ids of the book, in book order
book_chapters == <<1, 2>>

\* a units_per_group that is not a number (null or a string in the config file)
NotANumber == -1000

FULL_BOOK == "full_book"

REANALYZE == "reanalyze"

\* the keys of chapter_page_map, in insertion order
ChapterKeys ==
    LET RECURSIVE Keys(_, _)
        Keys(i, acc) ==
            IF i > Len(all_images) THEN acc
            ELSE Keys(i + 1, IF all_images[i] \in Range(acc) THEN acc
                             ELSE Append(acc, all_images[i]))
    IN  Keys(1, <<>>)

\* _build_chapter_page_map: the page numbers of a chapter, ascending
chapter_page_map(ch_id) ==
    SelectSeq([i \in 1..Len(all_images) |-> i], LAMBDA p : all_images[p] = ch_id)

\* faulty variant of Chunks: the slices start one page apart
Chunks_Overlapping(page_nums, b) ==
    [i \in 1..Len(page_nums) |-> SubSeq(page_nums, i, Min({i + b - 1, Len(page_nums)}))]

\* page_nums[i:i + pages_per_batch] for i in range(0, len(page_nums), pages_per_batch)
Chunks(page_nums, b) ==
    [i \in 1..CeilDiv(Len(page_nums), b) |->
        SubSeq(page_nums, (i - 1) * b + 1, Min({i * b, Len(page_nums)}))]

\* faulty variant of batch_groups: the last, shorter batch is left out
batch_groups_Floor(align_to_chapter) ==
    [i \in 1..(Len(all_images) \div settings.pages_per_batch) |->
        [j \in 1..settings.pages_per_batch |-> (i - 1) * settings.pages_per_batch + j]]

\* the page lists the batch layer submits, in order
batch_groups(align_to_chapter) ==
    IF align_to_chapter /\ ChapterKeys # <<>>
    THEN LET RECURSIVE Groups(_)
             Groups(k) ==
                IF k = 0 THEN <<>>
                ELSE Groups(k - 1)
                     \o Chunks(chapter_page_map(ChapterKeys[k]), settings.pages_per_batch)
         IN  Groups(Len(ChapterKeys))
    ELSE LET total_pages == Len(all_images)
             b == settings.pages_per_batch
         IN  [i \in 1..CeilDiv(total_pages, b) |->
                [j \in 1..(Min({(i - 1) * b + b, total_pages}) - (i - 1) * b) |->
                    (i - 1) * b + j]]

\* results[-n:] for n > 0
LastN(results, n) ==
    IF Len(results) <= n THEN results
    ELSE SubSeq(results, Len(results) - n + 1, Len(results))

\* what a progress callback does when it is called
Callbacks == {"returns", "raises"}

\* self.progress_callbacks.get(task_id, [])
CallbacksOf(task_id) ==
    IF task_id \in DOMAIN progress_callbacks THEN progress_callbacks[task_id] ELSE <<>>

\* register_progress_callback(task_id, callback), before the worker run of the
\* task has begun its work
register_progress_callback(task_id, callback) ==
    /\ run.pc = "start"
    /\ Len(CallbacksOf(task_id)) < MaxCallbacks
    /\ progress_callbacks' =
          [k \in DOMAIN progress_callbacks \cup {task_id} |->
              IF k = task_id THEN Append(CallbacksOf(task_id), callback)
              ELSE progress_callbacks[k]]
    /\ UNCHANGED <<tasks, book_tasks, running_tasks, pause_events, cancel_flags, workers,
                   clock, preset, ret, pause_cancelled, batches, page_store, segments,
                   chapter_store, vlm_calls, acall, aret, all_images, custom_layers,
                   settings, vector_store, singleton, run>>

\* faulty variant of notify_progress: the error of a callback ends the loop
notify_progress_StopsAtRaise(callbacks, invoked) ==
    [i \in DOMAIN callbacks |->
        (IF i \in DOMAIN invoked THEN invoked[i] ELSE 0)
        + (IF \E j \in 1..(i - 1) : callbacks[j] = "raises" THEN 0 ELSE 1)]

\* _notify_progress: every callback of the list is called, the error of a
\* callback is logged.  invoked is history: how often each callback was called
notify_progress(callbacks, invoked) ==
    [i \in DOMAIN callbacks |-> (IF i \in DOMAIN invoked THEN invoked[i] ELSE 0) + 1]

\* faulty variant of RaiseInTask: the handler stores the message only
RaiseInTask_KeepsStatus(r, msg) ==
    /\ tasks' = [tasks EXCEPT ![TheTask].error_message = msg]
    /\ running_tasks' = [t \in DOMAIN running_tasks \ {TheTask} |-> running_tasks[t]]
    /\ run' = [r EXCEPT !.pc = "done"]
    /\ UNCHANGED clock

\* _execute_task: `except Exception` writes the failure on the task, `finally`
\* removes the task from running_tasks
RaiseInTask(r, msg) ==
    /\ tasks' = [tasks EXCEPT ![TheTask].status = FAILED, ![TheTask].error_message = msg]
    /\ running_tasks' = [t \in DOMAIN running_tasks \ {TheTask} |-> running_tasks[t]]
    /\ run' = [r EXCEPT !.pc = "done"]
    /\ UNCHANGED clock

\* the middle-layer loop `for layer_idx in range(1, len(layers) - 1)` from layer
\* r.layer_idx on, up to the first group or chapter it has to summarise; a
\* summary layer over no input returns at once
RECURSIVE NextLayer(_)
NextLayer(r) ==
    IF r.layer_idx >= Len(get_layers) - 1
    THEN [r EXCEPT !.pc = "post"]
    ELSE LET layer == get_layers[r.layer_idx + 1] IN
         IF layer.align_to_chapter /\ layer.units_per_group = 0
         THEN [r EXCEPT !.pc = "chapter", !.group_idx = 0, !.summary_results = <<>>]
         ELSE IF r.current_results = <<>>
         THEN NextLayer([r EXCEPT !.layer_idx = @ + 1])
         ELSE IF layer.units_per_group = NotANumber
         THEN [r EXCEPT !.pc = "raise"]
         ELSE [r EXCEPT !.pc = "group", !.group_idx = 0, !.summary_results = <<>>]

\* _execute_full_book_batch_analysis after the batch layer has returned
AfterBatches(r) ==
    IF r.batch_results = <<>>
    THEN [r EXCEPT !.pc = "post"]
    ELSE NextLayer([r EXCEPT !.layer_idx = 1, !.current_results = r.batch_results])

\* the run goes on at r, or the TypeError of `units_per_group <= 0` escapes
Proceed(r) ==
    IF r.pc = "raise"
    THEN RaiseInTask(r, "TypeError")
    ELSE /\ run' = r
         /\ UNCHANGED <<tasks, running_tasks, clock>>

\* what no step of the worker run writes
RunFrame ==
    UNCHANGED <<book_tasks, pause_events, cancel_flags, workers, preset, ret,
                pause_cancelled, all_images, custom_layers, settings,
                progress_callbacks, singleton>>

\* _execute_task dispatches to _execute_full_book_analysis: the two
\* configuration checks, then the batch plan of the first layer
run_full_book_analysis ==
    /\ run.pc = "start"
    /\ run.task_type = FULL_BOOK
    /\ IF ~run.vlm_configured
       THEN RaiseInTask(run, "VLM not configured")
       ELSE IF Len(all_images) = 0
       THEN RaiseInTask(run, "no pages")
       ELSE /\ run' = [run EXCEPT !.pc = "batch",
                                  !.batch_groups = batch_groups(get_layers[1].align_to_chapter)]
            /\ UNCHANGED <<tasks, running_tasks, clock>>
    /\ UNCHANGED <<batches, page_store, segments, chapter_store, vlm_calls, acall, aret,
                   vector_store>>
    /\ RunFrame

\* faulty variant of run_batch: a failed batch ends the batch layer
run_batch_StopsAtFailure(outcome) ==
    /\ run.pc = "batch"
    /\ LET page_nums == run.batch_groups[run.batch_idx + 1]
           valid_results == SelectSeq(run.batch_results, LAMBDA r : ~r.parse_error)
           previous_results ==
               IF settings.context_batch_count > 0
               THEN LastN(valid_results, settings.context_batch_count)
               ELSE <<>>
       IN  /\ analyze_batch(batches, page_nums, TRUE, TRUE, previous_results, outcome)
           /\ acall' = [op |-> "analyze_batch", page_nums |-> page_nums, force |-> TRUE,
                        outcome |-> outcome]
           /\ LET r == [run EXCEPT
                          !.batch_idx = @ + 1,
                          !.batch_results = IF aret'.kind = "return" /\ Truthy(aret'.value)
                                            THEN Append(@, aret'.value) ELSE @,
                          !.failed_pages = IF aret'.kind = "raise" THEN @ \o page_nums ELSE @,
                          !.outcomes = Append(@, outcome),
                          !.analyzed_pages = page_nums[Len(page_nums)],
                          !.notifications = @ + 1,
                          !.invoked = notify_progress(CallbacksOf(TheTask), @)]
              IN  IF r.batch_idx < Len(r.batch_groups) /\ aret'.kind # "raise"
                  THEN /\ run' = r
                       /\ UNCHANGED <<tasks, running_tasks, clock>>
                  ELSE Proceed(AfterBatches(r))
    /\ UNCHANGED <<segments, chapter_store, vector_store>>
    /\ RunFrame

\* faulty variant of run_batch: the error of a failed batch escapes the layer
run_batch_FailureEscapes(outcome) ==
    /\ run.pc = "batch"
    /\ LET page_nums == run.batch_groups[run.batch_idx + 1]
           valid_results == SelectSeq(run.batch_results, LAMBDA r : ~r.parse_error)
           previous_results ==
               IF settings.context_batch_count > 0
               THEN LastN(valid_results, settings.context_batch_count)
               ELSE <<>>
       IN  /\ analyze_batch(batches, page_nums, TRUE, TRUE, previous_results, outcome)
           /\ acall' = [op |-> "analyze_batch", page_nums |-> page_nums, force |-> TRUE,
                        outcome |-> outcome]
           /\ LET r == [run EXCEPT
                          !.batch_idx = @ + 1,
                          !.batch_results = IF aret'.kind = "return" /\ Truthy(aret'.value)
                                            THEN Append(@, aret'.value) ELSE @,
                          !.failed_pages = IF aret'.kind = "raise" THEN @ \o page_nums ELSE @,
                          !.outcomes = Append(@, outcome),
                          !.analyzed_pages = page_nums[Len(page_nums)],
                          !.notifications = @ + 1,
                          !.invoked = notify_progress(CallbacksOf(TheTask), @)]
              IN  IF aret'.kind = "raise"
                  THEN RaiseInTask(r, "batch failed")
                  ELSE IF r.batch_idx < Len(r.batch_groups)
                  THEN /\ run' = r
                       /\ UNCHANGED <<tasks, running_tasks, clock>>
                  ELSE Proceed(AfterBatches(r))
    /\ UNCHANGED <<segments, chapter_store, vector_store>>
    /\ RunFrame

\* one turn of the loop of _execute_batch_analysis_layer: _analyze_single_batch
\* on the next page list, and after the last one the way to the next layer
run_batch(outcome) ==
    /\ run.pc = "batch"
    /\ LET page_nums == run.batch_groups[run.batch_idx + 1]
           valid_results == SelectSeq(run.batch_results, LAMBDA r : ~r.parse_error)
           previous_results ==
               IF settings.context_batch_count > 0
               THEN LastN(valid_results, settings.context_batch_count)
               ELSE <<>>
       IN  /\ analyze_batch(batches, page_nums, TRUE, TRUE, previous_results, outcome)
           /\ acall' = [op |-> "analyze_batch", page_nums |-> page_nums, force |-> TRUE,
                        outcome |-> outcome]
           /\ LET r == [run EXCEPT
                          !.batch_idx = @ + 1,
                          !.batch_results = IF aret'.kind = "return" /\ Truthy(aret'.value)
                                            THEN Append(@, aret'.value) ELSE @,
                          !.failed_pages = IF aret'.kind = "raise" THEN @ \o page_nums ELSE @,
                          !.outcomes = Append(@, outcome),
                          !.analyzed_pages = page_nums[Len(page_nums)],
                          !.notifications = @ + 1,
                          !.invoked = notify_progress(CallbacksOf(TheTask), @)]
              IN  IF r.batch_idx < Len(r.batch_groups)
                  THEN /\ run' = r
                       /\ UNCHANGED <<tasks, running_tasks, clock>>
                  ELSE Proceed(AfterBatches(r))
    /\ UNCHANGED <<segments, chapter_store, vector_store>>
    /\ RunFrame

\* input_results[start:end] of group group_idx
GroupItems(input_results, units_per_group, group_idx) ==
    LET u == EffectiveUnits(units_per_group, Len(input_results))
        start == group_idx * u
        end == Min({start + u, Len(input_results)})
    IN  SubSeq(input_results, start + 1, end)

\* batch.get("batch_summary", ""): a BatchResult may carry a batch summary, a
\* SegmentResult or a chapter record has no such key
batch_summary_of(batch) ==
    IF "batch_summary" \in DOMAIN batch THEN batch.batch_summary ELSE ""

\* seq[:n]
FirstN(seq, n) == SubSeq(seq, 1, Min({n, Len(seq)}))

\* a summary text: where it comes from ("" for the empty string, "response" for
\* the text of the language model, "joined" for "\n".join(...)) and, for a
\* join, the page ranges of the members whose batch summaries were joined
NoSummary == [from |-> "", parts |-> <<>>]

\* "\n".join(batch_summaries[:3])
JoinedSummary(batch_summaries) ==
    IF batch_summaries = <<>> THEN NoSummary
    ELSE [from |-> "joined", parts |-> FirstN(batch_summaries, 3)]

\* segment_data as generate_segment_summary sets it up before it calls the
\* language model; members is history: the page ranges of the inputs
SegmentOf(segment_id, group_items) ==
    [segment_id |-> segment_id,
     page_range |-> <<Min({group_items[i].page_range[1] : i \in DOMAIN group_items}),
                      Max({group_items[i].page_range[2] : i \in DOMAIN group_items})>>,
     summary |-> NoSummary,
     members |-> [i \in DOMAIN group_items |-> group_items[i].page_range],
     batch_count |-> Len(group_items)]

\* what the language model does to a generation call: it raises ("error"), it
\* answers with text that is no JSON ("unparsable"), or with a JSON object
\* that has a summary ("ok") and, for "own_range", a page_range of its own
Generations == {"ok", "own_range", "unparsable", "error"}

\* the page_range of an "own_range" response
ResponseRange == <<0, 0>>

\* generate_segment_summary from `batch_summaries = []` to the end of its try
\* statement: segment_data after the answer of the language model
SegmentData(segment_id, batch_results, gen) ==
    LET with_summary == SelectSeq(batch_results, LAMBDA b : batch_summary_of(b) # "")
        batch_summaries == [i \in DOMAIN with_summary |-> with_summary[i].page_range]
        segment_data == SegmentOf(segment_id, batch_results)
    IN  CASE gen = "ok" -> [segment_data EXCEPT !.summary = [from |-> "response", parts |-> <<>>]]
          [] gen = "own_range" ->
                [segment_data EXCEPT !.summary = [from |-> "response", parts |-> <<>>],
                                     !.page_range = ResponseRange]
          [] OTHER -> [segment_data EXCEPT !.summary = JoinedSummary(batch_summaries)]

\* storage.save_segment_summary on the segments/ directory segs
save_segment_summary(segs, segment_id, summary) ==
    [k \in DOMAIN segs \cup {segment_id} |->
        IF k = segment_id THEN [summary EXCEPT !.segment_id = segment_id] ELSE segs[k]]

\* MangaAnalyzer.generate_segment_summary(segment_id, batch_results, force):
\* the segments/ directory after the call and what the call returns ({} is
\* the empty sequence)
analyzer_generate_segment_summary(segs, segment_id, batch_results, force, gen) ==
    IF batch_results = <<>>
    THEN [segs |-> segs, value |-> <<>>]
    ELSE IF ~force /\ segment_id \in DOMAIN segs
    THEN [segs |-> segs, value |-> segs[segment_id]]
    ELSE LET segment_data == SegmentData(segment_id, batch_results, gen)
         IN  [segs |-> save_segment_summary(segs, segment_id, segment_data),
              value |-> [segment_data EXCEPT !.segment_id = segment_id]]

\* the run after a middle layer has returned results
AfterLayer(r, results) ==
    NextLayer([r EXCEPT !.layer_idx = @ + 1, !.current_results = results,
                        !.group_idx = 0, !.summary_results = <<>>])

\* the members a group can have: two BatchResults with a batch summary, and a
\* SegmentResult of an earlier tier, which has a summary of its own
SegmentMembers ==
    { [id |-> 1, parse_error |-> FALSE, page_range |-> <<1, 1>>, batch_summary |-> "a"],
      [id |-> 2, parse_error |-> FALSE, page_range |-> <<2, 3>>, batch_summary |-> "b"],
      [segment_id |-> <<1, 0>>, page_range |-> <<1, 2>>,
       summary |-> [from |-> "response", parts |-> <<>>],
       members |-> << <<1, 2>> >>, batch_count |-> 1] }

\* the groups handed to generate_segment_summary: up to MaxMembers members
SegmentInputs == UNION {[1..n -> SegmentMembers] : n \in 0..MaxMembers}

\* a caller invokes generate_segment_summary for the segment of tier 2, group 0
call_generate_segment_summary(batch_results, force, gen) ==
    LET segment_id == <<2, 0>>
        call == analyzer_generate_segment_summary(segments, segment_id, batch_results,
                                                  force, gen)
    IN  /\ segments' = call.segs
        /\ acall' = [op |-> "generate_segment_summary", segment_id |-> segment_id,
                     batch_results |-> batch_results, force |-> force, outcome |-> gen]
        /\ aret' = [kind |-> "return", value |-> call.value]
        /\ UNCHANGED <<batches, page_store, chapter_store, vlm_calls, all_images,
                       custom_layers, settings, progress_callbacks, vector_store,
                       singleton, run>>
        /\ UNCHANGED ControllerVars

\* forced calls as the summary tier makes them, and non-forced calls for a
\* group of one member
SegmentNext ==
    \/ \E batch_results \in SegmentInputs, gen \in Generations :
            call_generate_segment_summary(batch_results, TRUE, gen)
    \/ \E batch_results \in SegmentInputs, gen \in Generations :
            /\ Len(batch_results) = 1
            /\ call_generate_segment_summary(batch_results, FALSE, gen)

\* generate_segment_summary called directly, on an initially empty store
SegmentSpec == FullInit /\ [][SegmentNext]_vars

\* one turn of the loop of _execute_summary_layer: generate_segment_summary
\* with force=True for the next group; gens is history: what the language
\* model did to the groups so far
run_segment_summary(gen) ==
    /\ run.pc = "group"
    /\ LET layer == get_layers[run.layer_idx + 1]
           segment_id == <<run.layer_idx, run.group_idx>>
           group_items == GroupItems(run.current_results, layer.units_per_group, run.group_idx)
           call == analyzer_generate_segment_summary(segments, segment_id, group_items, TRUE, gen)
           r == [run EXCEPT !.group_idx = @ + 1,
                            !.summary_results = Append(@, call.value),
                            !.gens = Append(@, gen),
                            !.notifications = @ + 1,
                            !.invoked = notify_progress(CallbacksOf(TheTask), @)]
       IN  /\ segments' = call.segs
           /\ IF r.group_idx < TotalGroups(layer.units_per_group, Len(run.current_results))
              THEN /\ run' = r
                   /\ UNCHANGED <<tasks, running_tasks, clock>>
              ELSE Proceed(AfterLayer(r, r.summary_results))
    /\ UNCHANGED <<batches, page_store, chapter_store, vlm_calls, acall, aret, vector_store>>
    /\ RunFrame

\* faulty variant of ChapterBatches: only the inputs that lie inside the page
\* range of the chapter
ChapterBatches_Inside(ch_id, results) ==
    LET pages == chapter_page_map(ch_id) IN
    IF pages = <<>> THEN <<>>
    ELSE SelectSeq(results, LAMBDA b : /\ b.page_range[1] >= Min(Range(pages))
                                       /\ b.page_range[2] <= Max(Range(pages)))

\* generate_chapter_summary_from_batches: the inputs whose range overlaps the
\* page range of the chapter
ChapterBatches(ch_id, results) ==
    LET pages == chapter_page_map(ch_id) IN
    IF pages = <<>> THEN <<>>
    ELSE SelectSeq(results, LAMBDA b : /\ b.page_range[1] <= Max(Range(pages))
                                       /\ b.page_range[2] >= Min(Range(pages)))

\* one turn of the loop of _execute_chapter_summary_layer
run_chapter_summary ==
    /\ run.pc = "chapter"
    /\ LET ch_id == book_chapters[run.group_idx + 1]
           chapter_batches == ChapterBatches(ch_id, run.current_results)
           pages == chapter_page_map(ch_id)
           result == [chapter_id |-> ch_id,
                      page_range |-> <<Min(Range(pages)), Max(Range(pages))>>,
                      members |-> [i \in DOMAIN chapter_batches |->
                                      chapter_batches[i].page_range],
                      batch_count |-> Len(chapter_batches)]
           r == [run EXCEPT !.group_idx = @ + 1,
                            !.summary_results = IF chapter_batches = <<>> THEN @
                                                ELSE Append(@, result),
                            !.notifications = @ + 1,
                            !.invoked = notify_progress(CallbacksOf(TheTask), @)]
       IN  /\ chapter_store' =
                 IF chapter_batches = <<>> THEN chapter_store
                 ELSE [k \in DOMAIN chapter_store \cup {ch_id} |->
                         IF k = ch_id THEN result ELSE chapter_store[k]]
           /\ IF r.group_idx < Len(book_chapters)
              THEN /\ run' = r
                   /\ UNCHANGED <<tasks, running_tasks, clock>>
              ELSE Proceed(AfterLayer(r, r.summary_results))
    /\ UNCHANGED <<batches, page_store, segments, vlm_calls, acall, aret, vector_store>>
    /\ RunFrame

\* _execute_task dispatches to _execute_reanalysis: nothing to do for an empty
\* page list, else the sorted pages are cut into batches
run_reanalysis ==
    /\ run.pc = "start"
    /\ run.task_type = REANALYZE
    /\ run' = IF run.target_pages = <<>>
              THEN [run EXCEPT !.pc = "final"]
              ELSE [run EXCEPT !.pc = "rebatch",
                               !.batch_groups =
                                   Chunks(SortSeq(run.target_pages, LAMBDA a, b : a < b),
                                          settings.pages_per_batch)]
    /\ UNCHANGED <<tasks, running_tasks, clock>>
    /\ UNCHANGED <<batches, page_store, segments, chapter_store, vlm_calls, acall, aret,
                   vector_store>>
    /\ RunFrame

\* one turn of the loop of _execute_reanalysis; a page beyond the book has no
\* image info
run_reanalysis_batch(outcome) ==
    /\ run.pc = "rebatch"
    /\ LET batch_pages == run.batch_groups[run.batch_idx + 1]
       IN  /\ analyze_batch(batches, batch_pages,
                            \A i \in DOMAIN batch_pages : batch_pages[i] <= Len(all_images),
                            TRUE, <<>>, outcome)
           /\ acall' = [op |-> "analyze_batch", page_nums |-> batch_pages, force |-> TRUE,
                        outcome |-> outcome]
           /\ run' = [run EXCEPT
                        !.batch_idx = @ + 1,
                        !.failed_pages = IF aret'.kind = "raise" THEN @ \o batch_pages ELSE @,
                        !.outcomes = Append(@, outcome),
                        !.analyzed_pages =
                            IF aret'.kind = "raise" THEN @
                            ELSE Min({run.batch_idx * settings.pages_per_batch
                                        + settings.pages_per_batch,
                                      Len(run.target_pages)}),
                        !.notifications = @ + 1,
                        !.invoked = notify_progress(CallbacksOf(TheTask), @),
                        !.pc = IF run.batch_idx + 1 < Len(run.batch_groups)
                               THEN "rebatch" ELSE "post"]
    /\ UNCHANGED <<tasks, running_tasks, clock>>
    /\ UNCHANGED <<segments, chapter_store, vector_store>>
    /\ RunFrame

\* what a finalization step does: it returns, or it raises
Fates == {"ok", "raise"}

\* faulty variant of run_post_analysis_processing: the error of a step escapes
run_post_analysis_processing_Unguarded(emb, ov) ==
    /\ run.pc = "post"
    /\ vector_store' = build_embeddings(vector_store, batches, page_store, emb)
    /\ IF emb = "raise"
       THEN RaiseInTask([run EXCEPT !.steps = Append(@, "embedding"),
                                    !.step_errors = Append(@, "embedding")],
                        "embedding failed")
       ELSE IF ov = "raise"
       THEN RaiseInTask([run EXCEPT !.steps = @ \o <<"embedding", "overview">>,
                                    !.step_errors = Append(@, "overview")],
                        "overview failed")
       ELSE /\ run' = [run EXCEPT !.pc = "final", !.steps = @ \o <<"embedding", "overview">>]
            /\ UNCHANGED <<tasks, running_tasks, clock>>
    /\ UNCHANGED <<batches, page_store, segments, chapter_store, vlm_calls, acall, aret>>
    /\ RunFrame

\* _post_analysis_processing: build_embeddings and generate_overview, each in
\* its own try.  step_errors is history: the finalization steps that raised
run_post_analysis_processing(emb, ov) ==
    /\ run.pc = "post"
    /\ vector_store' = build_embeddings(vector_store, batches, page_store, emb)
    /\ run' = [run EXCEPT
                 !.pc = "final",
                 !.steps = @ \o <<"embedding", "overview">>,
                 !.step_errors = @ \o (IF emb = "raise" THEN <<"embedding">> ELSE <<>>)
                                   \o (IF ov = "raise" THEN <<"overview">> ELSE <<>>)]
    /\ UNCHANGED <<tasks, running_tasks, clock>>
    /\ UNCHANGED <<batches, page_store, segments, chapter_store, vlm_calls, acall, aret>>
    /\ RunFrame

\* _execute_task after the body has returned: the cancel flag test, the
\* timeline build (guarded inside _build_timeline_on_complete), the final
\* status, and the cleanup of `finally`
run_complete(tl) ==
    /\ run.pc = "final"
    /\ IF cancel_flags[TheTask]
       THEN /\ tasks' = [tasks EXCEPT ![TheTask].status = CANCELLED]
            /\ run' = [run EXCEPT !.pc = "done"]
            /\ UNCHANGED clock
       ELSE /\ clock' = clock + 1
            /\ tasks' = [tasks EXCEPT ![TheTask].status = COMPLETED,
                                      ![TheTask].completed_at = clock + 1]
            /\ run' = [run EXCEPT
                         !.pc = "done",
                         !.steps = Append(@, "timeline"),
                         !.step_errors = IF tl = "raise" THEN Append(@, "timeline") ELSE @]
    /\ running_tasks' = [t \in DOMAIN running_tasks \ {TheTask} |-> running_tasks[t]]
    /\ UNCHANGED <<batches, page_store, segments, chapter_store, vlm_calls, acall, aret,
                   vector_store>>
    /\ RunFrame

\* what the environment can answer to a batch of the run: a client without
\* credentials surfaces an error
Answers == IF run.vlm_configured THEN Outcomes ELSE {"vlm_error"}

\* the target_pages of a re-analysis task
TargetPages == {<<>>, <<1>>, <<2, 1>>, <<1, 3>>}

\* the books of at most MaxPages pages: the chapter of every page, in page order
BookPages == UNION {[1..n -> Range(book_chapters)] : n \in 0..MaxPages}

\* custom layer lists: a batch layer, one summary layer, the final layer
CustomLayers ==
    {<< [units_per_group |-> 5, align_to_chapter |-> a],
        [units_per_group |-> u, align_to_chapter |-> FALSE],
        [units_per_group |-> 0, align_to_chapter |-> FALSE] >> :
        a \in BOOLEAN, u \in {-1, 0, 1, 2, NotANumber}}

\* task 1 has been created and started; its worker thread is about to run
\* _execute_task on an empty result store
RunInit ==
    /\ tasks = (TheTask :> [NewTask(1) EXCEPT !.status = RUNNING, !.started_at = 1])
    /\ book_tasks = [b \in Books |-> <<TheTask>>]
    /\ running_tasks = (TheTask :> 1)
    /\ pause_events = (TheTask :> TRUE)
    /\ cancel_flags = (TheTask :> FALSE)
    /\ workers = <<>>
    /\ clock = 1
    /\ ret = [op |-> "start", result |-> "ok"]
    /\ pause_cancelled = {}
    /\ batches = <<>>
    /\ page_store = <<>>
    /\ segments = <<>>
    /\ chapter_store = <<>>
    /\ vlm_calls = <<>>
    /\ acall = [op |-> "none", page_nums |-> <<>>, force |-> FALSE, outcome |-> "ok"]
    /\ aret = [kind |-> "none", value |-> EmptyDict]
    /\ all_images \in BookPages
    /\ settings \in [pages_per_batch : 1..MaxBatchSize, context_batch_count : 0..MaxContext]
    /\ progress_callbacks = <<>>
    /\ vector_store = NoIndex
    /\ singleton = Constructed
    /\ \/ /\ preset \in DOMAIN ARCHITECTURE_PRESETS
          /\ custom_layers = <<>>
          /\ \E vc \in BOOLEAN :
                run = [IdleRun EXCEPT !.pc = "start", !.task_type = FULL_BOOK,
                                      !.vlm_configured = vc]
       \/ /\ preset = "custom"
          /\ custom_layers \in CustomLayers \cup {<<>>}
          /\ run = [IdleRun EXCEPT !.pc = "start", !.task_type = FULL_BOOK]
       \/ /\ preset = "standard"
          /\ custom_layers = <<>>
          /\ \E vc \in BOOLEAN, pages \in TargetPages :
                run = [IdleRun EXCEPT !.pc = "start", !.task_type = REANALYZE,
                                      !.vlm_configured = vc, !.target_pages = pages]

RunNext ==
    \/ run_full_book_analysis
    \/ \E outcome \in Answers : run_batch(outcome)
    \/ \E gen \in Generations : run_segment_summary(gen)
    \/ run_chapter_summary
    \/ run_reanalysis
    \/ \E outcome \in Answers : run_reanalysis_batch(outcome)
    \/ run_post_analysis_processing("ok", "ok")
    \/ run_complete("ok")

\* one run of the worker thread of a started task, with the data it handles;
\* no controller call is made while it runs and every finalization step succeeds
RunSpec == RunInit /\ [][RunNext]_vars

\* a run with batches of one page and a context window of one result
FinalizeInit ==
    /\ RunInit
    /\ settings = [pages_per_batch |-> 1, context_batch_count |-> 1]

FinalizeNext ==
    \/ run_full_book_analysis
    \/ \E outcome \in Answers : run_batch(outcome)
    \/ \E gen \in Generations : run_segment_summary(gen)
    \/ run_chapter_summary
    \/ run_reanalysis
    \/ \E outcome \in Answers : run_reanalysis_batch(outcome)
    \/ \E emb \in Embeddings, ov \in Fates : run_post_analysis_processing(emb, ov)
    \/ \E tl \in Fates : run_complete(tl)

\* one run of the worker thread of a started task in which every finalization
\* step can fail
FinalizeSpec == FinalizeInit /\ [][FinalizeNext]_vars

\* a run with batches of one page and a context window of one result
NotifyInit ==
    /\ RunInit
    /\ settings = [pages_per_batch |-> 1, context_batch_count |-> 1]

NotifyNext ==
    \/ RunNext
    \/ \E callback \in Callbacks : register_progress_callback(TheTask, callback)

\* one run of the worker thread of a task for which progress callbacks are
\* registered before it begins
NotifySpec == NotifyInit /\ [][NotifyNext]_vars

\* the route layer creates the next task of the book and starts it after the
\* worker of the previous one has exited; the run followed is the new task's
start_next_task(task_type, pages) ==
    /\ run.pc = "done"
    /\ run.runs + 1 < MaxRuns
    /\ clock' = clock + 1
    /\ tasks' = (TheTask :> [NewTask(1) EXCEPT !.status = RUNNING, !.started_at = clock + 1])
    /\ running_tasks' = (TheTask :> 1)
    /\ run' = [IdleRun EXCEPT !.pc = "start", !.task_type = task_type,
                              !.target_pages = pages, !.runs = run.runs + 1]
    /\ UNCHANGED <<batches, page_store, segments, chapter_store, vlm_calls, acall, aret,
                   vector_store>>
    /\ RunFrame

\* a book of three pages in two chapters, two pages per batch, no context
SequenceInit ==
    /\ RunInit
    /\ preset = "full"
    /\ all_images = <<1, 1, 2>>
    /\ settings = [pages_per_batch |-> 2, context_batch_count |-> 0]
    /\ run.vlm_configured

SequenceNext ==
    \/ RunNext
    \/ start_next_task(FULL_BOOK, <<>>)
    \/ \E pages \in TargetPages : start_next_task(REANALYZE, pages)

\* full-book and re-analysis tasks of one book run one after the other on the
\* same result store
SequenceSpec == SequenceInit /\ [][SequenceNext]_vars

\* ------------------------------------------------------------------ claims
WorkersOf(t) == {w \in DOMAIN workers : workers[w].task = t}

\* worker slot w holds a launched worker at position p
At(w, p) == w \in DOMAIN workers /\ workers[w].pc = p

\* worker w begins a batch, a group or a chapter summary in this step
BeginsUnit(w) == workers[w].pc \notin UnitPcs /\ workers'[w].pc \in UnitPcs

\* worker w returns from pause_event.wait() in this step
PassesGate(w) == workers[w].pc \in {"wait", "blocked"} /\ workers'[w].pc \in {"cp2", "woken"}

RunningOf(b) == {t \in DOMAIN tasks : tasks[t].book_id = b /\ tasks[t].status = RUNNING}

\* C1: in every reachable state at most one task of any book has status Running
C1_OneRunningPerBook == \A b \in Books : Cardinality(RunningOf(b)) <= 1

\* C2: a task that was cancelled while Paused (paused, then cancelled) never has
\* status Running again
C2_PauseCancelNeverRunning == \A t \in pause_cancelled : tasks[t].status # RUNNING

\* C3: a status that is Cancelled, Completed or Failed is never changed by any
\* controller call or worker step
C3_TerminalIsFinal ==
    [][\A t \in DOMAIN tasks :
          tasks[t].status \in Terminal => tasks'[t].status = tasks[t].status]_vars

\* C4: a task for which cancel_task succeeded (its cancel flag is set) has
\* status Cancelled whenever none of its workers is alive
C4_CancelledAfterWorkerExit ==
    \A t \in DOMAIN tasks :
        (cancel_flags[t] /\ \A w \in WorkersOf(t) : workers[w].pc = "dead")
            => tasks[t].status = CANCELLED

\* C5: while the cancel flag of its task is set a worker begins no batch, group
\* or chapter summary, and every test of the flag it makes inside a checkpoint
\* (before the gate, or after it) makes the checkpoint return 'stop'
C5_NoUnitAfterCancel ==
    [][\A w \in DOMAIN workers :
          cancel_flags[workers[w].task] =>
              /\ ~BeginsUnit(w)
              /\ (workers[w].pc \in {"cp1", "cp2", "woken"} /\ workers'[w] # workers[w])
                    => (workers'[w].saw_cancel # "" /\ workers'[w].pc \notin UnitPcs)]_vars

\* C5 witness: a worker that blocked on the gate, was woken and stopped at the
\* second test of the cancel flag
C5_Witness == \E w \in DOMAIN workers : workers[w].saw_cancel = "after_wake"

\* C6: a worker that observed cancellation at a checkpoint never executes a
\* finalization step (embeddings and overview, timeline)
C6_NoFinalizationAfterCancel ==
    \A w \in DOMAIN workers :
        workers[w].saw_cancel # "" => workers[w].pc \notin FinalizationPcs

\* C7 as stated: while the status of its task is and stays Paused, a worker
\* begins no batch, group or chapter summary
C7_NoUnitWhilePaused ==
    [][\A w \in DOMAIN workers :
          (tasks[workers[w].task].status = PAUSED /\ tasks'[workers[w].task].status = PAUSED)
              => ~BeginsUnit(w)]_vars

\* C7 amended: while the status of its task is and stays Paused, no worker
\* returns from the gate wait of a checkpoint
C7_NoGatePassWhilePaused ==
    [][\A w \in DOMAIN workers :
          (tasks[workers[w].task].status = PAUSED /\ tasks'[workers[w].task].status = PAUSED)
              => ~PassesGate(w)]_vars

\* C7 witness: a worker that finished its first batch waits at the next
\* checkpoint of a Paused task
C7_Witness ==
    \E w \in DOMAIN workers :
        /\ workers[w].pc = "blocked" /\ workers[w].batch_idx = 1
        /\ tasks[workers[w].task].status = PAUSED

\* C8: a successful cancel_task wakes every worker of the task that is blocked
\* on the pause gate, and a worker woken while the cancel flag is set eventually
\* stops at the re-check, leaves the task Cancelled by its own write and exits
C8_CancelWakesBlockedWorker ==
    /\ [][\A w \in DOMAIN workers :
             (workers[w].pc = "blocked" /\ cancel_task(workers[w].task)
              /\ ret'.result = "ok") => workers'[w].pc = "woken"]_vars
    /\ \A w \in 1..MaxWorkers :
        /\ (At(w, "woken") /\ cancel_flags[workers[w].task])
              ~> (At(w, "cleanup") /\ workers[w].wrote = CANCELLED
                  /\ workers[w].saw_cancel = "after_wake"
                  /\ tasks[workers[w].task].status = CANCELLED)
        /\ (At(w, "woken") /\ cancel_flags[workers[w].task]) ~> At(w, "dead")

\* C8 witness: a worker that was woken by the cancel has written Cancelled
C8_Witness ==
    \E w \in DOMAIN workers :
        /\ workers[w].pc = "cleanup" /\ workers[w].wrote = CANCELLED
        /\ workers[w].saw_cancel = "after_wake"
        /\ workers[w].task \in pause_cancelled

\* C9: pause_task returns success exactly when the status is Running, resume_task
\* exactly when it is Paused, and a rejected call of either changes no status,
\* pause event or cancel flag
C9_PauseResumeGuards ==
    [][\A tid \in TaskIds :
          /\ pause_task(tid) =>
                /\ (ret'.result = "ok")
                      <=> (tid \in DOMAIN tasks /\ tasks[tid].status = RUNNING)
                /\ ret'.result = "rejected"
                      => UNCHANGED <<tasks, pause_events, cancel_flags>>
          /\ resume_task(tid) =>
                /\ (ret'.result = "ok")
                      <=> (tid \in DOMAIN tasks /\ tasks[tid].status = PAUSED)
                /\ ret'.result = "rejected"
                      => UNCHANGED <<tasks, pause_events, cancel_flags>>]_vars

\* C9 witness: a pause was rejected while a task exists that is not Running
C9_Witness ==
    /\ ret = [op |-> "pause", result |-> "rejected"]
    /\ \E t \in DOMAIN tasks : tasks[t].status = PAUSED /\ ~pause_events[t]

\* the rejection conditions of start_task
StartRejected(tid) ==
    \/ tid \notin DOMAIN tasks
    \/ tasks[tid].status = RUNNING
    \/ \E o \in DOMAIN tasks :
          o # tid /\ tasks[o].book_id = tasks[tid].book_id /\ tasks[o].status = RUNNING

\* C10: start_task is rejected exactly for an unknown id, a Running task or a
\* task whose book has another Running task, and a rejected call changes no
\* task, pause event, cancel flag or clock and launches no worker
C10_RejectedStartChangesNothing ==
    [][\A tid \in TaskIds :
          start_task(tid) =>
              /\ (ret'.result = "rejected") <=> StartRejected(tid)
              /\ ret'.result = "rejected"
                    => UNCHANGED <<tasks, book_tasks, running_tasks, pause_events,
                                   cancel_flags, workers, clock>>]_vars

\* C10 witness: a start was rejected while a task of the book is Running and
\* another task of it has never been started
C10_Witness ==
    /\ ret = [op |-> "start", result |-> "rejected"]
    /\ \E t, o \in DOMAIN tasks :
          /\ t # o /\ tasks[t].book_id = tasks[o].book_id
          /\ tasks[o].status = RUNNING
          /\ tasks[t].status = PENDING /\ tasks[t].started_at = 0

\* C11: a non-forced analyze_batch call for a range whose stored result is not
\* a parse error returns that stored result as it is, and makes no call of the
\* analysis client and no write to the result store.
C11_NonForcedCallUsesCache ==
    [][LET key == <<Min(Range(acall'.page_nums)), Max(Range(acall'.page_nums))>> IN
        (/\ acall'.op = "analyze_batch"
         /\ ~acall'.force
         /\ acall'.page_nums # <<>>
         /\ key \in DOMAIN batches
         /\ ~batches[key].parse_error)
        => /\ vlm_calls' = vlm_calls
           /\ batches' = batches
           /\ page_store' = page_store
           /\ segments' = segments
           /\ aret'.kind = "return"
           /\ aret'.value = batches[key]]_vars

\* C11: a call has returned a stored result that is older than the last call
\* of the analysis client
C11_Witness ==
    /\ acall.op = "analyze_batch"
    /\ ~acall.force
    /\ aret.kind = "return"
    /\ Truthy(aret.value)
    /\ aret.value.id < Len(vlm_calls)
    /\ aret.value.page_range \in DOMAIN batches
    /\ batches[aret.value.page_range] = aret.value

\* C18: reanalyze_batch(start, end), with every page file in place and a client
\* that answers, leaves a freshly computed BatchResult stored under
\* (start, end), and every BatchResult stored under another key is as before.
C18_ReanalyzeStoresFreshResult ==
    [][LET key == acall'.page_nums IN
        (/\ acall'.op = "reanalyze_batch"
         /\ acall'.outcome = "ok"
         /\ key[1] <= key[2])
        => /\ key \in DOMAIN batches'
           /\ Len(vlm_calls') = Len(vlm_calls) + 1
           /\ batches'[key].id = Len(vlm_calls')
           /\ \A k \in DOMAIN batches \ {key} :
                 k \in DOMAIN batches' /\ batches'[k] = batches[k]
           /\ DOMAIN batches' \subseteq DOMAIN batches \cup {key}]_vars

\* C12: the context of every call of the analysis client is built from at most
\* context_batch_count prior batch results, and from no result flagged as a
\* parse error.
C12_ContextWithinWindow ==
    \A i \in DOMAIN vlm_calls :
        /\ Len(vlm_calls[i].context) <= settings.context_batch_count
        /\ \A j \in DOMAIN vlm_calls[i].context : ~vlm_calls[i].context[j].parse_error

\* the analysis of batch i of the run raised: a page file was gone, the client
\* raised, or (re-analysis) a page lies beyond the book
BatchFailed(i) ==
    \/ run.outcomes[i] \in {"vlm_error", "no_image"}
    \/ \E k \in DOMAIN run.batch_groups[i] : run.batch_groups[i][k] > Len(all_images)

\* the pages of the failed batches among the first n, in order
RECURSIVE FailedPagesUpTo(_)
FailedPagesUpTo(n) ==
    IF n = 0 THEN <<>>
    ELSE FailedPagesUpTo(n - 1) \o (IF BatchFailed(n) THEN run.batch_groups[n] ELSE <<>>)

\* C13: the failed-unit list holds exactly the pages of the batches whose
\* analysis failed, in order, and once the batch tier is over every batch of
\* its plan has been attempted: a failed batch does not end the tier.
C13_BatchFailureDoesNotAbortTier ==
    /\ Len(run.outcomes) = run.batch_idx
    /\ run.failed_pages = FailedPagesUpTo(run.batch_idx)
    /\ run.pc \notin {"start", "batch", "rebatch"} => run.batch_idx = Len(run.batch_groups)

\* C13: a run is over in which a batch failed and a later batch was analysed
C13_Witness ==
    /\ run.pc = "done"
    /\ \E i \in DOMAIN run.outcomes, j \in DOMAIN run.outcomes :
          /\ i < j
          /\ run.outcomes[i] = "vlm_error"
          /\ run.outcomes[j] = "ok"
          /\ run.batch_groups[j] \in {vlm_calls[c].page_nums : c \in DOMAIN vlm_calls}
          /\ Range(run.batch_groups[i]) \subseteq Range(run.failed_pages)

\* the place (from 0) in the batch plan of the run of the batch stored under a
\* page range
PlanIndex(page_range) ==
    (CHOOSE i \in DOMAIN run.batch_groups :
        <<Min(Range(run.batch_groups[i])), Max(Range(run.batch_groups[i]))>> = page_range) - 1

\* C14: in a full-book run whose first summary tier groups by units_per_group
\* = u > 0, the SegmentResult of group g is built only from batches whose place
\* in the batch plan lies in [g*u, (g+1)*u): a failed batch keeps its place and
\* no later batch is shifted into an earlier group.
C14_FailedBatchKeepsItsPlace ==
    (/\ run.task_type = FULL_BOOK
     /\ Len(get_layers) >= 3
     /\ get_layers[2].units_per_group > 0)
    => \A sid \in DOMAIN segments :
          sid[1] = 1 =>
            \A i \in DOMAIN segments[sid].members :
                PlanIndex(segments[sid].members[i]) \div get_layers[2].units_per_group = sid[2]

\* the page ranges of a list of results
RangesOf(results) == [i \in DOMAIN results |-> results[i].page_range]

\* the members of a list of summaries, one after the other
RECURSIVE MembersOf(_)
MembersOf(summaries) ==
    IF summaries = <<>> THEN <<>>
    ELSE MembersOf(SubSeq(summaries, 1, Len(summaries) - 1))
         \o summaries[Len(summaries)].members

\* C15: a grouping tier over n > 0 inputs with units_per_group = u builds group
\* g from the inputs [g*u, min((g+1)*u, n)) in their order, ceil(n/u) groups
\* when u > 0 and one group of all inputs when u <= 0, so that the groups
\* together are the input list; over no input it builds no group.
C15_GroupsPartitionInputs ==
    [][/\ run.pc = "group" =>
            LET n == Len(run.current_results)
                u == get_layers[run.layer_idx + 1].units_per_group
                g == run.group_idx
                lo == IF u > 0 THEN g * u ELSE 0
                hi == IF u > 0 /\ (g + 1) * u < n THEN (g + 1) * u ELSE n
                groups == IF u > 0 THEN (n + u - 1) \div u ELSE 1
                sid == <<run.layer_idx, g>>
            IN  /\ n > 0
                /\ sid \in DOMAIN segments'
                /\ segments'[sid].members = RangesOf(SubSeq(run.current_results, lo + 1, hi))
                /\ segments'[sid].members # <<>>
                /\ (run'.layer_idx # run.layer_idx) <=> (g + 1 = groups)
                /\ run'.layer_idx # run.layer_idx =>
                      /\ Len(run'.current_results) = groups
                      /\ MembersOf(run'.current_results) = RangesOf(run.current_results)
       /\ (run.pc \in {"batch", "start"} /\ run'.batch_results = <<>>) => segments' = <<>>
      ]_vars

\* C15: a tier over three inputs with units_per_group = 2 is over: two groups,
\* the second one holding the last input alone
C15_Witness ==
    /\ Len(get_layers) = 3
    /\ get_layers[2].units_per_group = 2
    /\ run.layer_idx = 2
    /\ Len(run.batch_results) = 3
    /\ Len(run.current_results) = 2
    /\ run.current_results[2].members = <<run.batch_results[3].page_range>>
    /\ DOMAIN segments = {<<1, 0>>, <<1, 1>>}

\* C15: a full-book run is over whose batches all failed: no group was built
C15_WitnessNoInput ==
    /\ run.pc = "done"
    /\ run.task_type = FULL_BOOK
    /\ run.batch_idx > 0
    /\ run.batch_results = <<>>
    /\ segments = <<>>

\* C16: without chapter alignment a full-book run over P pages with batch size
\* b plans ceil(P/b) batches; batch i holds the consecutive pages
\* (i-1)*b+1 .. min(i*b, P), so every batch but possibly the last has b pages
\* and the batches are contiguous, disjoint and cover exactly 1..P; the client
\* is called for batches of the plan only, and results are stored under their
\* ranges only.
C16_BatchesCoverTheBook ==
    (/\ run.task_type = FULL_BOOK
     /\ ~get_layers[1].align_to_chapter
     /\ run.pc # "start"
     /\ tasks[TheTask].status # FAILED \/ run.batch_groups # <<>>)
    => LET P == Len(all_images)
           b == settings.pages_per_batch
           plan == run.batch_groups
       IN  /\ Len(plan) = (P + b - 1) \div b
           /\ \A i \in DOMAIN plan :
                 /\ Len(plan[i]) = (IF i * b <= P THEN b ELSE P - (i - 1) * b)
                 /\ Len(plan[i]) >= 1
                 /\ \A j \in DOMAIN plan[i] : plan[i][j] = (i - 1) * b + j
           /\ UNION {Range(plan[i]) : i \in DOMAIN plan} = 1..P
           /\ \A c \in DOMAIN vlm_calls :
                 \E i \in 1..run.batch_idx : vlm_calls[c].page_nums = plan[i]
           /\ \A k \in DOMAIN batches :
                 \E i \in 1..run.batch_idx : k = <<plan[i][1], plan[i][Len(plan[i])]>>

\* C16: a run over a book of three pages with batch size 2 is over and has
\* stored results under (1,2) and (3,3)
C16_Witness ==
    /\ run.pc = "done"
    /\ run.task_type = FULL_BOOK
    /\ ~get_layers[1].align_to_chapter
    /\ Len(all_images) = 3
    /\ settings.pages_per_batch = 2
    /\ DOMAIN batches = {<<1, 2>>, <<3, 3>>}

\* every page from start to end belongs to one and the same chapter
InsideOneChapter(start_page, end_page) ==
    \E ch_id \in Range(book_chapters) :
        \A p \in start_page..end_page : p \in DOMAIN all_images /\ all_images[p] = ch_id

\* C17: with align_to_chapter on the batch layer, every batch of a full-book
\* run holds pages of one chapter only, and the page range (min page, max page)
\* under which its result is stored holds no page of another chapter.
C17_AlignedBatchInsideOneChapter ==
    (run.task_type = FULL_BOOK /\ get_layers[1].align_to_chapter)
    => /\ \A i \in DOMAIN run.batch_groups :
             \E ch_id \in Range(book_chapters) :
                 \A j \in DOMAIN run.batch_groups[i] :
                     all_images[run.batch_groups[i][j]] = ch_id
       /\ \A k \in DOMAIN batches : InsideOneChapter(k[1], k[2])

\* C19: when an error escapes the body of the task (the run ends without
\* reaching the end of _execute_task's try block), the task is Failed with the
\* error message stored on it, and every BatchResult and SegmentResult that
\* was persisted before is in the result store as it was.
C19_UnhandledErrorFailsTaskKeepsResults ==
    [][(run'.pc = "done" /\ run.pc \notin {"final", "done"})
        => /\ tasks'[TheTask].status = FAILED
           /\ tasks'[TheTask].error_message # ""
           /\ \A k \in DOMAIN batches : k \in DOMAIN batches' /\ batches'[k] = batches[k]
           /\ \A k \in DOMAIN segments : k \in DOMAIN segments' /\ segments'[k] = segments[k]
           /\ \A i \in DOMAIN run'.batch_results :
                 /\ run'.batch_results[i].page_range \in DOMAIN batches'
                 /\ batches'[run'.batch_results[i].page_range] = run'.batch_results[i]
      ]_vars

\* C19: a task has failed on an error raised after batch results were stored
C19_Witness ==
    /\ tasks[TheTask].status = FAILED
    /\ tasks[TheTask].error_message = "TypeError"
    /\ run.pc = "done"
    /\ batches # <<>>
    /\ Len(run.batch_results) >= 2

\* the run has a configuration error: the analysis client has no credentials,
\* or there is no page to analyse
ConfigurationError ==
    \/ ~run.vlm_configured
    \/ run.task_type = FULL_BOOK /\ Len(all_images) = 0
    \/ run.task_type = REANALYZE /\ run.target_pages = <<>>

\* C20: a run with a configuration error, of a full-book or of a re-analysis
\* task, makes no call of the analysis client, writes nothing to the result
\* store and runs no finalization step, and when it is over the task is Failed
\* with an error message.
C20_ConfigurationErrorFailsBeforeWork ==
    (ConfigurationError /\ run.pc # "idle")
    => /\ vlm_calls = <<>>
       /\ batches = <<>> /\ page_store = <<>> /\ segments = <<>> /\ chapter_store = <<>>
       /\ run.steps = <<>>
       /\ run.pc \notin {"post", "final"}
       /\ run.pc = "done" =>
             /\ tasks[TheTask].status = FAILED
             /\ tasks[TheTask].error_message # ""

\* a batch or a group of the run has failed
UnitFailed ==
    \/ \E i \in 1..run.batch_idx : BatchFailed(i)
    \/ \E g \in DOMAIN run.gens : run.gens[g] = "error"

\* the layer list cannot be evaluated: a group size that is no number
MalformedLayers ==
    \E i \in DOMAIN get_layers : get_layers[i].units_per_group = NotANumber

\* C21: a run in which a batch or a group failed, without configuration error,
\* without malformed layer list and without cancel request, ends with the task
\* Completed, with a completion time and no error message, and its
\* failed-unit list holds exactly the pages of the batches that failed.
C21_PartialFailureCompletes ==
    (/\ run.pc = "done"
     /\ UnitFailed
     /\ ~ConfigurationError
     /\ ~MalformedLayers
     /\ ~cancel_flags[TheTask])
    => /\ tasks[TheTask].status = COMPLETED
       /\ tasks[TheTask].completed_at > 0
       /\ tasks[TheTask].error_message = ""
       /\ run.batch_idx = Len(run.batch_groups)
       /\ run.failed_pages = FailedPagesUpTo(Len(run.batch_groups))

\* C21: a full-book run is over in which a batch failed, a later batch was
\* analysed and the generation call of a group failed
C21_Witness ==
    /\ run.pc = "done"
    /\ run.task_type = FULL_BOOK
    /\ tasks[TheTask].status = COMPLETED
    /\ run.failed_pages # <<>>
    /\ run.batch_results # <<>>
    /\ \E g \in DOMAIN run.gens : run.gens[g] = "error"

\* worker w is inside a tier: the batch tier or the loop of a middle layer
InTier(r) == r.site \in {"batch", "group", "chapter"}

\* the step ends the tier worker w is in: control goes to the next layer, to
\* finalization or back to _execute_task
LeavesTier(w) ==
    /\ InTier(workers[w])
    /\ \/ workers'[w].site # workers[w].site
       \/ workers'[w].layer_idx # workers[w].layer_idx

\* the step processes the last unit of the tier worker w is in
LastUnitDone(w) ==
    LET r == workers[w] IN
    \/ /\ r.pc = "batch"
       /\ r.batch_idx + 1 = TotalBatches(get_layers[1].align_to_chapter)
    \/ /\ r.pc = "group"
       /\ r.group_idx + 1 = TotalGroups(get_layers[r.layer_idx + 1].units_per_group,
                                        r.current_results)
    \/ /\ r.pc = "chapter"
       /\ r.group_idx + 1 = Cardinality(chapters)

\* the step takes worker w into _post_analysis_processing
EntersFinalization(w) == workers[w].pc # "post" /\ workers'[w].pc = "post"

\* C22, first half: a worker leaves a tier, for the next tier or for anything
\* else, only in the step that processes the last unit of the tier or in a
\* step in which a checkpoint of the tier observes cancellation.
C22_TierEndsBeforeNextBegins ==
    [][\A w \in DOMAIN workers :
          (w \in DOMAIN workers' /\ LeavesTier(w))
              => (LastUnitDone(w) \/ workers'[w].saw_cancel # "")]_vars

\* C22: tiers never overlap (first half), and a worker enters finalization
\* only when the tier before has finished: in the step that processes the last
\* unit of a tier, or from the head of the layer loop when no layer is left
\* to run, never from a tier or a loop that cancellation has cut short.
C22_TiersInSequence ==
    [][\A w \in DOMAIN workers :
          w \in DOMAIN workers' =>
            /\ LeavesTier(w) => (LastUnitDone(w) \/ workers'[w].saw_cancel # "")
            /\ EntersFinalization(w)
                  => /\ workers'[w].saw_cancel = ""
                     /\ InTier(workers[w]) => LastUnitDone(w)]_vars

\* the calls of the analysis client are in increasing page order: every page
\* of a call lies after every page of the calls before it
CallsInPageOrder ==
    \A c \in DOMAIN vlm_calls, d \in DOMAIN vlm_calls :
        c < d => Max(Range(vlm_calls[c].page_nums)) < Min(Range(vlm_calls[d].page_nums))

\* the context of every call of the analysis client holds only results of
\* batches of the run that were submitted before it
ContextFromEarlierBatches ==
    \A c \in DOMAIN vlm_calls :
        \A j \in DOMAIN vlm_calls[c].context :
            /\ vlm_calls[c].context[j].id < c
            /\ \E i \in DOMAIN run.batch_results :
                  run.batch_results[i] = vlm_calls[c].context[j]

\* C23: in the batch tier of a full-book run the batches reach the analysis
\* client in strictly increasing page order, and the context given to a batch
\* holds only results of batches submitted before it.
C23_BatchesInPageOrder ==
    run.task_type = FULL_BOOK => (CallsInPageOrder /\ ContextFromEarlierBatches)

\* C23, without chapter alignment of the batch layer
C23_UnalignedInPageOrder ==
    (run.task_type = FULL_BOOK /\ ~get_layers[1].align_to_chapter)
        => (CallsInPageOrder /\ ContextFromEarlierBatches)

\* C23, the context half alone
C23_ContextHalf == run.task_type = FULL_BOOK => ContextFromEarlierBatches

C30_RebuildLeavesNoOldEntry ==
    (\E e \in vector_store.pages \cup vector_store.events : e.built = vector_store.builds)
        => \A e \in vector_store.pages \cup vector_store.events :
              e.built = vector_store.builds

\* C30 for rebuilds from batch results: after a rebuild that found stored
\* batches no entry of an earlier rebuild is left
C30_RebuildFromBatches ==
    [][(acall'.op = "build_embeddings" /\ acall'.outcome \in {"ok", "embed_error"}
        /\ DOMAIN batches # {})
       => \A e \in vector_store'.pages \cup vector_store'.events :
              e.built = vector_store'.builds]_vars

GroupGenerationFails ==
    /\ run.pc = "group"
    /\ Len(run'.gens) = Len(run.gens) + 1
    /\ run'.gens[Len(run'.gens)] = "error"

\* the results a run holds at the moment: those of the tier in progress and
\* those handed to the next tier
HeldResults(r) == Range(r.summary_results) \cup Range(r.current_results)

\* C26, second half: a group whose generation call raises does not end its
\* tier: the next group of the tier is processed, and after the last group the
\* run goes on without failing the task.
C26_FailedGroupDoesNotAbortTier ==
    [][GroupGenerationFails
       => IF run.group_idx + 1 < TotalGroups(get_layers[run.layer_idx + 1].units_per_group,
                                             Len(run.current_results))
          THEN run'.pc = "group" /\ run'.group_idx = run.group_idx + 1
          ELSE run'.pc \in {"group", "chapter", "post"}
               /\ tasks'[TheTask].status = RUNNING]_vars

\* C26: when the generation call of a group raises, no SegmentResult of the
\* group is persisted or handed on, and the tier goes on with its next group.
C26_FailedGroupEmitsNothing ==
    [][GroupGenerationFails
       => /\ <<run.layer_idx, run.group_idx>> \notin DOMAIN segments'
          /\ \A x \in HeldResults(run') :
                "segment_id" \in DOMAIN x => x.segment_id # <<run.layer_idx, run.group_idx>>
          /\ run'.pc # "done"]_vars

\* a member of a group has a summary text: the batch summary of a BatchResult,
\* the summary of a SegmentResult of an earlier tier
HasSummary(member) ==
    \/ batch_summary_of(member) # ""
    \/ "summary" \in DOMAIN member /\ member.summary # NoSummary

\* the join of the first three member summaries of a group
JoinOfFirstThree(batch_results) ==
    LET with_summary == SelectSeq(batch_results, HasSummary)
    IN  IF with_summary = <<>> THEN NoSummary
        ELSE [from |-> "joined",
              parts |-> [i \in 1..Min({3, Len(with_summary)}) |-> with_summary[i].page_range]]

\* the step is a call of generate_segment_summary that asks the language
\* model about a group and gets an answer that cannot be parsed
UnparsableAnswer ==
    /\ acall'.op = "generate_segment_summary"
    /\ acall'.outcome = "unparsable"
    /\ acall'.batch_results # <<>>
    /\ acall'.force \/ acall'.segment_id \notin DOMAIN segments

\* C27: when the answer for a group cannot be parsed the call returns (it
\* does not raise), the SegmentResult it returns is the one persisted under
\* the segment id, and its synopsis is the join of the first three member
\* summaries.
C27_UnparsableAnswerFallsBack ==
    [][UnparsableAnswer
       => /\ aret'.kind = "return"
          /\ acall'.segment_id \in DOMAIN segments'
          /\ segments'[acall'.segment_id] = aret'.value
          /\ aret'.value.summary = JoinOfFirstThree(acall'.batch_results)]_vars

\* C27 for groups of BatchResults, the groups of the first summary tier
C27_FallbackOverBatchResults ==
    [][(UnparsableAnswer
        /\ \A i \in DOMAIN acall'.batch_results : "batch_summary" \in DOMAIN acall'.batch_results[i])
       => /\ aret'.kind = "return"
          /\ acall'.segment_id \in DOMAIN segments'
          /\ segments'[acall'.segment_id] = aret'.value
          /\ aret'.value.summary = JoinOfFirstThree(acall'.batch_results)]_vars

\* the page range spanning the members of a SegmentResult: the least start
\* and the greatest end of their ranges
SpanOfMembers(s) ==
    <<Min({s.members[i][1] : i \in DOMAIN s.members}),
      Max({s.members[i][2] : i \in DOMAIN s.members})>>

\* the SegmentResults of the summary tiers a run holds at the moment
HeldSegments(r) == {x \in HeldResults(r) : "segment_id" \in DOMAIN x}

\* C28: every SegmentResult in the segment store, and every SegmentResult a
\* summary tier of the run has returned, has the page range that spans its
\* members, whatever the language model answered.
C28_RangeSpansMembers ==
    /\ \A sid \in DOMAIN segments : segments[sid].page_range = SpanOfMembers(segments[sid])
    /\ \A s \in HeldSegments(run) : s.page_range = SpanOfMembers(s)

\* C28 for answers that carry no page_range of their own
C28_RangeWithoutOwnRange ==
    (\A g \in DOMAIN run.gens : run.gens[g] # "own_range")
    => /\ \A sid \in DOMAIN segments : segments[sid].page_range = SpanOfMembers(segments[sid])
       /\ \A s \in HeldSegments(run) : s.page_range = SpanOfMembers(s)

\* the pages of chapter ch_id of the book
PagesIn(ch_id) == {p \in DOMAIN all_images : all_images[p] = ch_id}

\* the places in the input list of the inputs that overlap chapter ch_id:
\* start <= last page of the chapter and end >= first page of the chapter
Overlapping(ch_id, inputs) ==
    IF PagesIn(ch_id) = {} THEN {}
    ELSE {i \in DOMAIN inputs : /\ inputs[i].page_range[1] <= Max(PagesIn(ch_id))
                                /\ inputs[i].page_range[2] >= Min(PagesIn(ch_id))}

\* the results the chapter tier has emitted so far
EmittedByChapterTier(r) == IF r.pc = "chapter" THEN r.summary_results ELSE r.current_results

\* the emitted results for chapter ch_id
EmittedFor(r, ch_id) ==
    {i \in DOMAIN EmittedByChapterTier(r) : EmittedByChapterTier(r)[i].chapter_id = ch_id}

\* C29: a turn of the chapter tier for a chapter with overlapping inputs
\* stores and emits one result for the chapter, built from exactly the
\* overlapping inputs, in input order; a turn for a chapter without
\* overlapping input stores and emits nothing; and no turn touches the result
\* of another chapter.
C29_OneResultPerOverlappedChapter ==
    [][(run.pc = "chapter" /\ run'.pc # "done")
       => LET ch_id == book_chapters[run.group_idx + 1]
              inputs == run.current_results
              over == Overlapping(ch_id, inputs)
          IN  /\ \A c \in DOMAIN chapter_store \ {ch_id} :
                    c \in DOMAIN chapter_store' /\ chapter_store'[c] = chapter_store[c]
              /\ DOMAIN chapter_store' \subseteq DOMAIN chapter_store \cup {ch_id}
              /\ IF over = {}
                 THEN /\ chapter_store' = chapter_store
                      /\ EmittedByChapterTier(run') = run.summary_results
                 ELSE /\ ch_id \in DOMAIN chapter_store'
                      /\ chapter_store'[ch_id].chapter_id = ch_id
                      /\ chapter_store'[ch_id].batch_count = Cardinality(over)
                      /\ chapter_store'[ch_id].members =
                            RangesOf(SelectSeq(inputs,
                                LAMBDA b : \E i \in over : inputs[i] = b))
                      /\ EmittedByChapterTier(run')
                            = Append(run.summary_results, chapter_store'[ch_id])
                      /\ Cardinality(EmittedFor(run', ch_id)) = 1]_vars

\* C29: the chapter tier of a run is over having emitted a result for one
\* chapter, built from two inputs, and none for the other chapter, which no
\* input overlaps
C29_Witness ==
    /\ run.pc \in {"post", "final", "done"}
    /\ tasks[TheTask].status # FAILED
    /\ DOMAIN chapter_store = {1}
    /\ chapter_store[1].batch_count = 2
    /\ PagesIn(2) # {}

\* the workers of task t whose thread has not ended
LiveWorkersOf(t) == {w \in WorkersOf(t) : workers[w].pc # "dead"}

\* C31: at any time at most one worker is executing a given task: start_task
\* never launches a second worker for a task whose previous worker is still
\* alive (for example a task that is Paused)
C31_OneLiveWorkerPerTask ==
    \A t \in DOMAIN tasks : Cardinality(LiveWorkersOf(t)) <= 1

\* C32: in every reachable state a task whose status is Running has its pause
\* gate set, and the gate is cleared only while the status is Paused
C32_GateClearedOnlyWhilePaused ==
    \A t \in DOMAIN tasks :
        /\ tasks[t].status = RUNNING => pause_events[t]
        /\ ~pause_events[t] => tasks[t].status = PAUSED

HasStatus(t, statuses) == t \in DOMAIN tasks /\ tasks[t].status \in statuses

\* C33: under fair scheduling, with every external call returning, a task whose
\* start_task succeeded eventually reaches Completed, Cancelled or Failed
\* unless its status stays Paused forever, and a task is never left with status
\* Running while none of its workers can take a step (blocked or gone)
C33_StartedTaskTerminates ==
    \A t \in TaskIds :
        /\ ([]<>~HasStatus(t, {PAUSED}))
              => (HasStatus(t, {RUNNING}) ~> HasStatus(t, Terminal))
        /\ [](HasStatus(t, {RUNNING})
                => \E w \in WorkersOf(t) : workers[w].pc \notin {"blocked", "dead"})

\* the places <<i, j>> of the batch plan that hold page p
PlacesOf(plan, p) ==
    {ij \in {<<i, j>> : i \in DOMAIN plan, j \in 1..MaxPages} :
        ij[2] \in DOMAIN plan[ij[1]] /\ plan[ij[1]][ij[2]] = p}

\* the run of a full-book task has left the batch tier without failing in it
PastBatchTier ==
    /\ run.task_type = FULL_BOOK
    /\ run.batch_groups # <<>>
    /\ run.pc \notin {"start", "batch"}

\* C34: in a full-book run that is not cancelled, with or without chapter
\* alignment, every page 1..P of the book is assigned to exactly one batch of
\* the plan, and once the batch tier is over every batch of the plan was
\* submitted once: no page is analysed twice and none is left out
C34_EveryPageInExactlyOneBatch ==
    (run.task_type = FULL_BOOK /\ run.batch_groups # <<>>) =>
        LET plan == run.batch_groups IN
        /\ \A p \in 1..Len(all_images) : Cardinality(PlacesOf(plan, p)) = 1
        /\ \A i \in DOMAIN plan : Range(plan[i]) \subseteq 1..Len(all_images)
        /\ \A p \in 1..Len(all_images) :
              Cardinality({c \in DOMAIN vlm_calls : p \in Range(vlm_calls[c].page_nums)}) <= 1
        /\ Len(run.outcomes) = run.batch_idx
        /\ PastBatchTier => run.batch_idx = Len(plan)

\* C34 witness: an aligned run over a book whose chapters interleave (pages of
\* chapter 1, 2, 1) with two pages per batch has finished
C34_Witness ==
    /\ PastBatchTier
    /\ run.pc = "done"
    /\ get_layers[1].align_to_chapter
    /\ all_images = <<1, 2, 1>>
    /\ settings.pages_per_batch = 2
    /\ run.batch_groups = << <<1, 3>>, <<2>> >>
    /\ tasks[TheTask].status = COMPLETED

\* the pages a stored range covers
Covered(k) == k[1]..k[2]

\* C35: after any sequence of full-book and Reanalyze runs on a book with a
\* fixed batch size, the page ranges of the stored BatchResults are pairwise
\* non-overlapping: each page is covered by at most one stored BatchResult
C35_StoredRangesDisjoint ==
    \A k \in DOMAIN batches, o \in DOMAIN batches :
        k # o => Covered(k) \cap Covered(o) = {}

\* task.progress.total_pages of the run: the pages of the book, or the target
\* pages of a re-analysis
ProgressTotal ==
    IF run.task_type = FULL_BOOK THEN Len(all_images) ELSE Len(run.target_pages)

\* a progress notification is sent in this step
Notifies == run'.notifications > run.notifications

\* C36: during a full-book or Reanalyze run every progress snapshot has
\* 0 <= completed units <= total units, and the completed units never decrease
\* from one notification to the next
C36_ProgressBoundedAndMonotonic ==
    [][Notifies =>
          /\ 0 <= run'.analyzed_pages
          /\ run'.analyzed_pages <= ProgressTotal
          /\ run'.analyzed_pages >= run.analyzed_pages]_vars

\* C36, the bounds alone: every snapshot has 0 <= completed <= total
C36_ProgressBounded ==
    [][Notifies => (0 <= run'.analyzed_pages /\ run'.analyzed_pages <= ProgressTotal)]_vars

\* analyze_batch is called in this step, it calls the analysis client, and the
\* client fails
ClientFailsInAnalyzeBatch ==
    /\ acall'.op = "analyze_batch"
    /\ acall'.outcome = "vlm_error"
    /\ Len(vlm_calls') = Len(vlm_calls) + 1

\* C37: a call of analyze_batch (forced or not) in which the analysis client
\* fails writes nothing: the error reaches the caller, and the batch records
\* and the page records are exactly what they were before the call
C37_FailedClientCallWritesNothing ==
    [][ClientFailsInAnalyzeBatch =>
          /\ aret'.kind = "raise"
          /\ batches' = batches
          /\ page_store' = page_store]_vars

\* C37 witness: a forced call over a range that has a stored result and page
\* records has just failed in the client
C37_Witness ==
    /\ acall.op = "analyze_batch"
    /\ acall.outcome = "vlm_error"
    /\ acall.force
    /\ aret.kind = "raise"
    /\ acall.page_nums # <<>>
    /\ Len(vlm_calls) = 2
    /\ vlm_calls[2].page_nums = acall.page_nums
    /\ <<Min(Range(acall.page_nums)), Max(Range(acall.page_nums))>> \in DOMAIN batches
    /\ Range(acall.page_nums) \subseteq DOMAIN page_store

\* every worker launched for task t has exited
WorkersExited(t) ==
    WorkersOf(t) # {} /\ \A w \in WorkersOf(t) : workers[w].pc = "dead"

\* C38: once the worker of a task has exited and no call of start_task for it
\* is under way, the task id is not in running_tasks, whatever the order of
\* start_task's registration and the worker's own clean-up
C38_ExitedWorkerNotRegistered ==
    \A t \in DOMAIN tasks :
        (WorkersExited(t) /\ ~InStartTask) => t \notin DOMAIN running_tasks

\* C39: when the controller singleton is first constructed from several threads
\* at once its task tables are initialised exactly once, and a task recorded
\* through one thread's reference is never lost to another thread's
\* constructor call
C39_TablesInitialisedOnce ==
    [][/\ singleton'.inits <= 1
       /\ \A t \in DOMAIN tasks : t \in DOMAIN tasks']_vars
====
